---------------------------- MODULE Spec2Model ----------------------------
(***************************************************************************)
(* A model of clob-rs: the order-amount rounding policy, the order builder *)
(* (EIP-712 order hashing and signing), the CLOB client's authentication   *)
(* levels and the HMAC request signer.                                     *)
(*                                                                         *)
(* Numbers.  The program computes amounts in f64.  An f64 value is         *)
(* modelled as a finite decimal v / 10^d together with n, the sign of the  *)
(* binary rounding error it carries: n = 0 for a value that prints as the  *)
(* decimal itself (a literal, or the quotient k / 10^d, both correctly     *)
(* rounded), n = -1 / n = 1 for a product that fell just below / above the *)
(* decimal.  floor, ceil and round see n only where the decimal sits       *)
(* exactly on their boundary, format!("{}") sees it as a long tail of      *)
(* digits.                                                                 *)
(***************************************************************************)
EXTENDS Integers, Sequences, FiniteSets, TLC

VARIABLES
    amt,    \* the amounts harness: one call of get_order_amounts
    ob,     \* an OrderBuilder held by a caller
    ord,    \* the caller's last create_order / create_market_order call
    hm,     \* the HMAC harness: one call of build_hmac_signature
    client, \* a ClobClient held by a caller
    call,   \* the caller's last call of a client operation
    hd,     \* the signing harness: one call of a signing or header function
    inv     \* two invocations of the order builder that run concurrently

vars == <<amt, ob, ord, hm, client, call, hd, inv>>

---------------------------------------------------------------------------
(* Bounds of the model. *)

\* sizes run over 0.00 .. MaxCents / 100, in steps of half a cent
MaxCents == 30
\* prices run over 0 .. MaxPrice tenths of a tick
MaxPrice == 26
\* the clock reads 1 .. MaxNow seconds
MaxNow == 2
\* get_markets is followed for MaxPages requests
MaxPages == 4
\* large orders have sizes of 53 .. 53 + MaxLarge times 10 000 shares
MaxLarge == 4
\* rand::random::<f64>() returns k / RandSteps, k in 0 .. RandSteps - 1
RandSteps == 8

---------------------------------------------------------------------------
(* f64 arithmetic (src/src/order_builder.rs, lines 126-155). *)

RECURSIVE Pow10(_)
Pow10(k) == IF k = 0 THEN 1 ELSE 10 * Pow10(k - 1)

RECURSIVE Pow5(_)
Pow5(k) == IF k = 0 THEN 1 ELSE 5 * Pow5(k - 1)

Dec(v, d) == [v |-> v, d |-> d, n |-> 0]

\* the integers of TLC have 32 bits: a * b is one of them (a, b >= 0)
FitsProduct(a, b) == b = 0 \/ a <= 2147483647 \div b

\* v * 10^k is one of them
Fits(v, k) == k <= 9 /\ FitsProduct(v, Pow10(k))

\* the decimal without the trailing zeros of v, also those before the point
\* (d < 0: v * 10^-d)
RECURSIVE Strip(_)
Strip(x) ==
    IF x.v # 0 /\ x.v % 10 = 0
    THEN Strip([v |-> x.v \div 10, d |-> x.d - 1, n |-> x.n])
    ELSE x

\* an integer beyond 32 bits, m * 10^e + off with off in {-1, 0, 1}
RECURSIVE WideInt(_, _, _)
WideInt(m, e, off) ==
    IF m # 0 /\ m % 10 = 0 THEN WideInt(m \div 10, e + 1, off)
    ELSE [m |-> m, e |-> e, off |-> off]

\* a decimal beyond 32 bits has two terms, v / 10^d + off / 10^od: the
\* second term of x, if it has one
Off(x) == IF "off" \in DOMAIN x THEN x.off ELSE 0

\* v * 10^e >= 2^52 = 4503599627370496: from there on every binary64 is an
\* integer, and floor, ceil and round return their argument
AtLeast2p52(v, e) ==
    IF e >= 16 THEN v >= 1
    ELSE IF e >= 7 THEN v > 450359962 \div Pow10(e - 7)
    ELSE FALSE

\* the decimal without trailing zeros
RECURSIVE Norm(_)
Norm(x) ==
    IF x.d > 0 /\ x.v % 10 = 0
    THEN Norm([v |-> x.v \div 10, d |-> x.d - 1, n |-> x.n])
    ELSE x

\* a decimal that binary64 holds exactly (few digits: v / 10^d with 5^d | v)
BinaryExact(x) == Norm(x).v % Pow5(Norm(x).d) = 0

\* <<v, d, k>>: the binary64 product (v / 10^d) * 10^k is below the decimal
\* product.  Listed where that product is an integer or a half-integer, the
\* boundaries of floor and round, for every decimal below 4.00 (k = 2) and
\* below 0.006 (k = 4); the products * 10 and * 1000 of the decimals below
\* 0.4 have no such case, nor have the prices of the market harness.
F64_PRODUCT_BELOW ==
    { <<c, 2, 2>> : c \in {29, 57, 58, 113, 114, 115, 116, 201, 203, 205,
                           207, 226, 228, 230, 232, 251, 253, 255} }
    \cup { <<j, 3, 2>> : j \in {145, 285, 565, 575} }
    \cup { <<j, 5, 4>> : j \in {15, 145, 465, 565} }

\* <<k, j>>: the binary64 product (k * 10^4) * (j / 10^4) of a large size
\* and a price is below the decimal product, for k in 53 .. 58 and j in
\* 8500 .. 8528; no such product is above it.
F64_LARGE_PRODUCT_BELOW ==
    { <<k, 8503>> : k \in 53 .. 58 } \cup { <<k, 8513>> : k \in 54 .. 58 }
    \cup { <<k, 8523>> : k \in 55 .. 58 }

\* x * factor, factor = 10f64.powi(decimals); a product beyond 32 bits keeps
\* v and has d < 0
mul_factor(x, decimals) ==
    LET x0 == Norm(x) IN
    IF Off(x) # 0
    THEN [v |-> x.v, d |-> x.d - decimals, n |-> x.n,
          off |-> x.off, od |-> x.od - decimals]
    ELSE
    [ v |-> IF x.d >= decimals THEN x.v
            ELSE IF Fits(x.v, decimals - x.d)
            THEN x.v * Pow10(decimals - x.d) ELSE x.v,
      d |-> IF x.d >= decimals THEN x.d - decimals
            ELSE IF Fits(x.v, decimals - x.d) THEN 0 ELSE x.d - decimals,
      n |-> IF x.n # 0 THEN x.n
            ELSE IF <<x0.v, x0.d, decimals>> \in F64_PRODUCT_BELOW THEN -1
            ELSE 0 ]

\* k / factor: the double nearest to the decimal k / 10^decimals
div_factor(k, decimals) == Dec(k, decimals)

\* k / factor for an integer beyond 32 bits: the double nearest to the
\* decimal (m * 10^e + off) / 10^decimals
div_factor_wide(k, decimals) ==
    IF k.off = 0 THEN [v |-> k.m, d |-> decimals - k.e, n |-> 0]
    ELSE [v |-> k.m, d |-> decimals - k.e, n |-> 0,
          off |-> k.off, od |-> decimals]

\* what y is above (1), below (-1) or neither of its integer v * 10^-d: the
\* side of its second term, or else of its rounding error
Side_of(y) == IF Off(y) # 0 THEN Off(y) ELSE y.n

\* floor, ceil and round of y below 2^52; y.d < 0 is an integer beyond 32
\* bits, and a double just below it is floored to one less
floor(y) ==
    IF y.d < 0
    THEN IF Off(y) # 0 /\ y.od = 0 THEN WideInt(y.v, 0 - y.d, y.off)
         ELSE WideInt(y.v, 0 - y.d, IF Side_of(y) < 0 THEN -1 ELSE 0)
    ELSE
    LET q == y.v \div Pow10(y.d)
        r == y.v % Pow10(y.d)
    IN  IF r = 0 /\ y.n < 0 THEN q - 1 ELSE q

ceil(y) ==
    IF y.d < 0
    THEN IF Off(y) # 0 /\ y.od = 0 THEN WideInt(y.v, 0 - y.d, y.off)
         ELSE WideInt(y.v, 0 - y.d, IF Side_of(y) > 0 THEN 1 ELSE 0)
    ELSE
    LET q == y.v \div Pow10(y.d)
        r == y.v % Pow10(y.d)
    IN  IF r = 0 /\ y.n <= 0 THEN q ELSE q + 1

\* f64::round: half away from zero
round(y) ==
    IF y.d < 0
    THEN WideInt(y.v, 0 - y.d, IF Off(y) # 0 /\ y.od = 0 THEN y.off ELSE 0)
    ELSE
    LET q == y.v \div Pow10(y.d)
        r == y.v % Pow10(y.d)
    IN  IF 2 * r > Pow10(y.d) THEN q + 1
        ELSE IF 2 * r = Pow10(y.d) THEN (IF y.n < 0 THEN q ELSE q + 1)
        ELSE q

\* a * b; err is the sign of the rounding error of this product.  A product
\* beyond 32 bits is taken without the trailing zeros of a and b.
fmul(a, b, err) ==
    LET wide == ~FitsProduct(a.v, b.v)
        a0 == IF wide THEN Strip(a) ELSE a
        b0 == IF wide THEN Strip(b) ELSE b
    IN
    [ v |-> a0.v * b0.v,
      d |-> a0.d + b0.d,
      n |-> IF a.v = 0 \/ b.v = 0 \/ (BinaryExact(a) /\ BinaryExact(b))
            THEN 0 ELSE err ]

\* digits format!("{}", x) prints for a product that carries a rounding error
NOISY_DECIMALS == 15

round_down(x, decimals) ==
    LET y == mul_factor(x, decimals) IN
    IF y.d < 0 THEN div_factor_wide(floor(y), decimals)
    ELSE div_factor(floor(y), decimals)

\* mutant: the price is truncated instead of rounded
round_normal_truncating(x, decimals) == round_down(x, decimals)

round_normal(x, decimals) ==
    LET y == mul_factor(x, decimals) IN
    IF y.d < 0 THEN div_factor_wide(round(y), decimals)
    ELSE div_factor(round(y), decimals)

\* from 2^52 on ceil returns x * factor, error and all, and the division
\* gives a double on the same side of the decimal as x was
round_up(x, decimals) ==
    LET y == mul_factor(x, decimals) IN
    IF y.d < 0 /\ AtLeast2p52(y.v, 0 - y.d) THEN x
    ELSE IF y.d < 0 THEN div_factor_wide(ceil(y), decimals)
    ELSE div_factor(ceil(y), decimals)

to_token_decimals(x) == round(mul_factor(x, 6))

decimal_places(x) ==
    IF x.n # 0 THEN NOISY_DECIMALS
    ELSE IF Off(x) # 0 THEN x.od
    ELSE IF Norm(x).d < 0 THEN 0 ELSE Norm(x).d

---------------------------------------------------------------------------
(* The rounding table (src/src/order_builder.rs, lines 79-124). *)

TickSize == {"0.1", "0.01", "0.001", "0.0001"}

ROUNDING_CONFIG ==
    [ ts \in TickSize |->
        CASE ts = "0.1"    -> [price |-> 1, size |-> 2, amount |-> 3]
          [] ts = "0.01"   -> [price |-> 2, size |-> 2, amount |-> 4]
          [] ts = "0.001"  -> [price |-> 3, size |-> 2, amount |-> 5]
          [] ts = "0.0001" -> [price |-> 4, size |-> 2, amount |-> 6] ]

get_round_config(tick_size) ==
    IF tick_size \in DOMAIN ROUNDING_CONFIG
    THEN ROUNDING_CONFIG[tick_size]
    ELSE [price |-> 2, size |-> 2, amount |-> 4]

---------------------------------------------------------------------------
(* OrderBuilder::get_order_amounts (src/src/order_builder.rs, 183-224). *)

\* the over-precision correction of a raw amount (lines 197-202, 212-217)
fix_amount(raw, round_config) ==
    IF decimal_places(raw) > round_config.amount
    THEN LET up == round_up(raw, round_config.amount + 4) IN
         IF decimal_places(up) > round_config.amount
         THEN round_down(up, round_config.amount)
         ELSE up
    ELSE raw

\* mutant: the SELL branch rounds the size instead of flooring it
get_order_amounts_sell_rounds(side, size, price, round_config, err) ==
    LET raw_price == round_normal(price, round_config.price) IN
    IF side = "BUY"
    THEN LET raw_taker_amt == round_down(size, round_config.size)
             raw_maker_amt ==
                 fix_amount(fmul(raw_taker_amt, raw_price, err), round_config)
         IN  <<0, to_token_decimals(raw_maker_amt),
                  to_token_decimals(raw_taker_amt)>>
    ELSE LET raw_maker_amt == round_normal(size, round_config.size)
             raw_taker_amt ==
                 fix_amount(fmul(raw_maker_amt, raw_price, err), round_config)
         IN  <<1, to_token_decimals(raw_maker_amt),
                  to_token_decimals(raw_taker_amt)>>

get_order_amounts(side, size, price, round_config, err) ==
    LET raw_price == round_normal(price, round_config.price) IN
    IF side = "BUY"
    THEN LET raw_taker_amt == round_down(size, round_config.size)
             raw_maker_amt ==
                 fix_amount(fmul(raw_taker_amt, raw_price, err), round_config)
         IN  <<0, to_token_decimals(raw_maker_amt),
                  to_token_decimals(raw_taker_amt)>>
    ELSE LET raw_maker_amt == round_down(size, round_config.size)
             raw_taker_amt ==
                 fix_amount(fmul(raw_maker_amt, raw_price, err), round_config)
         IN  <<1, to_token_decimals(raw_maker_amt),
                  to_token_decimals(raw_taker_amt)>>

---------------------------------------------------------------------------
(* OrderBuilder::get_market_order_amounts (order_builder.rs, 226-267). *)

\* long division: the first digits decimals of num / den, and what remains
RECURSIVE LongDiv(_, _, _, _)
LongDiv(acc, rem, den, digits) ==
    IF digits = 0 THEN <<acc, rem>>
    ELSE LongDiv(acc * 10 + (rem * 10) \div den, (rem * 10) % den, den,
                 digits - 1)

\* a / b for b > 0, kept to `digits` decimals: a quotient with more decimals
\* lies above the kept ones (n = 1); one that ends within them carries the
\* rounding error err of the division unless both operands are exact in binary
fdiv(a, b, err, digits) ==
    LET num == a.v * Pow10(b.d)
        den == b.v * Pow10(a.d)
        q == LongDiv(num \div den, num % den, den, digits)
    IN  [v |-> q[1], d |-> digits,
         n |-> IF q[2] # 0 THEN 1
               ELSE IF a.v = 0 \/ (BinaryExact(a) /\ BinaryExact(b)) THEN 0
               ELSE err]

\* mutant: the SELL branch of the market path rounds the amount
get_market_order_amounts_sell_rounds(side, amount, price, round_config, err) ==
    LET raw_price == round_normal(price, round_config.price) IN
    IF side = "BUY"
    THEN LET raw_maker_amt == round_down(amount, round_config.size)
             raw_taker_amt ==
                 fix_amount(fdiv(raw_maker_amt, raw_price, err,
                                 round_config.amount + 4), round_config)
         IN  <<0, to_token_decimals(raw_maker_amt),
                  to_token_decimals(raw_taker_amt)>>
    ELSE LET raw_maker_amt == round_normal(amount, round_config.size)
             raw_taker_amt ==
                 fix_amount(fmul(raw_maker_amt, raw_price, err), round_config)
         IN  <<1, to_token_decimals(raw_maker_amt),
                  to_token_decimals(raw_taker_amt)>>

get_market_order_amounts(side, amount, price, round_config, err) ==
    LET raw_price == round_normal(price, round_config.price) IN
    IF side = "BUY"
    THEN LET raw_maker_amt == round_down(amount, round_config.size)
             raw_taker_amt ==
                 fix_amount(fdiv(raw_maker_amt, raw_price, err,
                                 round_config.amount + 4), round_config)
         IN  <<0, to_token_decimals(raw_maker_amt),
                  to_token_decimals(raw_taker_amt)>>
    ELSE LET raw_maker_amt == round_down(amount, round_config.size)
             raw_taker_amt ==
                 fix_amount(fmul(raw_maker_amt, raw_price, err), round_config)
         IN  <<1, to_token_decimals(raw_maker_amt),
                  to_token_decimals(raw_taker_amt)>>

---------------------------------------------------------------------------
(* Values of the order path: results, strings, integers, addresses, hashes. *)

Ok(v) == [ok |-> TRUE, val |-> v]

\* ClobError (src/src/error.rs): the variant and its message
Err(variant, message) == [ok |-> FALSE, variant |-> variant, message |-> message]

\* a string that is parsed or printed is the sequence of its characters
DIGITS == <<"0", "1", "2", "3", "4", "5", "6", "7", "8", "9">>

HEX_LOWER == DIGITS \o <<"a", "b", "c", "d", "e", "f">>

HEX_UPPER == DIGITS \o <<"A", "B", "C", "D", "E", "F">>

\* u64::to_string / U256::to_string: the decimal digits, no leading zero
RECURSIVE to_string(_)
to_string(k) ==
    IF k < 10 THEN <<DIGITS[k + 1]>>
    ELSE Append(to_string(k \div 10), DIGITS[(k % 10) + 1])

\* i32::to_string
i32_to_string(k) == IF k < 0 THEN <<"-">> \o to_string(0 - k) ELSE to_string(k)

\* `as u64` of an i32: the value itself, or 2^64 + k for a negative k
as_u64(k) == IF k >= 0 THEN k ELSE <<"2^64 +", k>>

\* the value of a character as a digit; 36 stands for "not a digit below 16"
char_digit(c) ==
    IF \E i \in 1 .. 16 : HEX_LOWER[i] = c
    THEN (CHOOSE i \in 1 .. 16 : HEX_LOWER[i] = c) - 1
    ELSE IF \E i \in 1 .. 16 : HEX_UPPER[i] = c
    THEN (CHOOSE i \in 1 .. 16 : HEX_UPPER[i] = c) - 1
    ELSE 36

\* U256::from_str_radix: every character must be a digit of the radix
RECURSIVE from_digits(_, _, _)
from_digits(src, radix, acc) ==
    IF src = <<>> THEN Ok(acc)
    ELSE IF char_digit(Head(src)) >= radix THEN Err("ParseError", "InvalidDigit")
    ELSE from_digits(Tail(src), radix, acc * radix + char_digit(Head(src)))

from_str_radix(src, radix) == from_digits(src, radix, 0)

\* mutant: a token id that does not parse becomes zero
parse_token_id_or_default(token_id) ==
    LET prefixed == Len(token_id) >= 2 /\ token_id[1] = "0" /\ token_id[2] = "x"
        parsed == from_str_radix(IF prefixed
                                 THEN SubSeq(token_id, 3, Len(token_id))
                                 ELSE token_id,
                                 IF prefixed THEN 16 ELSE 10)
    IN  IF parsed.ok THEN parsed ELSE Ok(0)

\* order_builder.rs 366-377: strip "0x" and read base 16, else read base 10
parse_token_id(token_id) ==
    LET prefixed == Len(token_id) >= 2 /\ token_id[1] = "0" /\ token_id[2] = "x"
        parsed == from_str_radix(IF prefixed
                                 THEN SubSeq(token_id, 3, Len(token_id))
                                 ELSE token_id,
                                 IF prefixed THEN 16 ELSE 10)
    IN  IF parsed.ok THEN parsed
        ELSE Err("InvalidParameter", "invalid token_id")

ZERO_ADDRESS == "0x0000000000000000000000000000000000000000"

\* the addresses of the model: the 20 bytes (named), their checksummed text
\* and their lower-case text
ADDRESSES ==
    { [addr |-> "zero", checksum |-> ZERO_ADDRESS, lower |-> ZERO_ADDRESS],
      [addr |-> "f39f", checksum |-> "0xf39Fd6e51aad88F6F4ce6aB8827279cffFb92266",
       lower |-> "0xf39fd6e51aad88f6f4ce6ab8827279cfffb92266"],
      [addr |-> "7099", checksum |-> "0x70997970C51812dc3A010C7d01b50e0d17dc79C8",
       lower |-> "0x70997970c51812dc3a010c7d01b50e0d17dc79c8"],
      [addr |-> "4bfb", checksum |-> "0x4bFb41d5B3570DeFd03C39a9A4D8dE6Bd8B8982E",
       lower |-> "0x4bfb41d5b3570defd03c39a9a4d8de6bd8b8982e"],
      [addr |-> "c5d5", checksum |-> "0xC5d563A36AE78145C45a50134d48A1215220f80a",
       lower |-> "0xc5d563a36ae78145c45a50134d48a1215220f80a"] }

\* str::parse::<Address>: the text of 20 bytes in hex, in either case
parse_address(text) ==
    IF \E a \in ADDRESSES : text \in {a.checksum, a.lower}
    THEN Ok((CHOOSE a \in ADDRESSES : text \in {a.checksum, a.lower}).addr)
    ELSE Err("FromHexError", "invalid string")

\* Result::unwrap_or_default for an Address: the zero address
unwrap_or_default(parsed) == IF parsed.ok THEN parsed.val ELSE "zero"

\* Address::to_checksum(None)
to_checksum(address) == (CHOOSE a \in ADDRESSES : a.addr = address).checksum

\* keccak256 is collision free: a hash is named by what was hashed
keccak256(bytes) == [keccak256 |-> bytes]

---------------------------------------------------------------------------
(* Signer (src/src/signer.rs) and the contract table (src/src/config.rs). *)

Some(v) == [some |-> TRUE, val |-> v]

None == [some |-> FALSE]

CHAIN_ID == 137

\* the private keys of the model: the key, its text and its address
PRIVATE_KEYS ==
    { [key |-> "ac09", addr |-> "f39f",
       text |-> "ac0974bec39a17e36ba4a6b4d238ff944bacb478cbed5efcae784d7bf4f2ff80"],
      [key |-> "59c6", addr |-> "7099",
       text |-> "59c6995e998f97a5a0044966f0945389dc9e86dae88c7a8412f4603b6b78690d"] }

\* the texts a caller may pass as a private key: bare or with "0x"
KeyTexts ==
    { <<"", k.text>> : k \in PRIVATE_KEYS } \cup
    { <<"0x", k.text>> : k \in PRIVATE_KEYS } \cup { <<"", "not-a-key">> }

\* Signer::new: strip "0x", parse the key
Signer_new(private_key, chain_id) ==
    IF \E k \in PRIVATE_KEYS : k.text = private_key[2]
    THEN Ok([key |-> (CHOOSE k \in PRIVATE_KEYS : k.text = private_key[2]).key,
             chain_id |-> chain_id])
    ELSE Err("Signing", "invalid private key")

Signer_address(self) == (CHOOSE k \in PRIVATE_KEYS : k.key = self.key).addr

Signer_address_string(self) == to_checksum(Signer_address(self))

\* PrivateKeySigner::sign_hash: the ECDSA signature, named by the key and the
\* hash it covers (the nonce of the signature is derived from both, RFC 6979)
sign_prehash(key, hash) == [signed_by |-> key, hash |-> hash]

\* Signature::as_bytes: r, s and the parity byte
as_bytes(sig) == [bytes |-> 32 + 32 + 1, of |-> sig]

\* hex::encode: two characters for a byte
hex_encode(data) == [chars |-> 2 * data.bytes, of |-> data.of]

\* format!("0x{}", text)
format_0x(text) == [chars |-> 2 + text.chars, prefix |-> "0x", hex |-> text.of]

\* mutant: the signature is returned without the "0x"
Signer_sign_hash_unprefixed(self, hash, sign_ok) ==
    IF sign_ok
    THEN Ok([chars |-> hex_encode(as_bytes(sign_prehash(self.key, hash))).chars,
             prefix |-> "", hex |-> sign_prehash(self.key, hash)])
    ELSE Err("Signing", "failed to sign")

\* Signer::sign_hash: the inner signer signs or fails
Signer_sign_hash(self, hash, sign_ok) ==
    IF sign_ok
    THEN Ok(format_0x(hex_encode(as_bytes(sign_prehash(self.key, hash)))))
    ELSE Err("Signing", "failed to sign")

POLYGON_CONFIG ==
    [exchange |-> "0x4bFb41d5B3570DeFd03C39a9A4D8dE6Bd8B8982E",
     collateral |-> "0x2791Bca1f2de4661ED88A30C99A7a9449Aa84174",
     conditional_tokens |-> "0x4D97DCd97eC945f40cF65F87097ACe5EA0476045"]

POLYGON_NEG_RISK_CONFIG ==
    [exchange |-> "0xC5d563A36AE78145C45a50134d48A1215220f80a",
     collateral |-> "0x2791bca1f2de4661ed88a30c99a7a9449aa84174",
     conditional_tokens |-> "0x4D97DCd97eC945f40cF65F87097ACe5EA0476045"]

\* mutant: the chain is not looked at
get_contract_config_any_chain(chain_id, neg_risk) ==
    IF neg_risk THEN Some(POLYGON_NEG_RISK_CONFIG) ELSE Some(POLYGON_CONFIG)

get_contract_config(chain_id, neg_risk) ==
    CASE chain_id = 137 /\ ~neg_risk -> Some(POLYGON_CONFIG)
      [] chain_id = 137 /\ neg_risk -> Some(POLYGON_NEG_RISK_CONFIG)
      [] OTHER -> None

---------------------------------------------------------------------------
(* OrderBuilder (src/src/order_builder.rs, 157-181 and 271-497). *)

OrderBuilder_new(signer) ==
    [signer |-> signer, sig_type |-> 0, funder |-> Signer_address(signer)]

OrderBuilder_with_sig_type(self, sig_type) == [self EXCEPT !.sig_type = sig_type]

\* mutant: the funder takes the place of the signer too
OrderBuilder_with_funder_as_signer(self, funder) ==
    [self EXCEPT !.funder = funder,
                 !.signer = [@ EXCEPT !.key =
                     (CHOOSE k \in PRIVATE_KEYS : k.addr = funder).key]]

OrderBuilder_with_funder(self, funder) == [self EXCEPT !.funder = funder]

\* mutant: orders are hashed under the domain of the login challenge
OrderBuilder_domain_separator_of_login(exchange, chain_id) ==
    keccak256(<<keccak256("EIP712Domain(string name,string version,uint256 chainId)"),
                keccak256("ClobAuthDomain"), keccak256("1"), chain_id>>)

OrderBuilder_domain_separator(exchange, chain_id) ==
    keccak256(<<keccak256("EIP712Domain(string name,string version,uint256 chainId,address verifyingContract)"),
                keccak256("Polymarket CTF Exchange"),
                keccak256("1"),
                chain_id,
                parse_address(exchange).val>>)

\* mutant: the signature type is not hashed, its word is zero
order_struct_hash_without_signature_type(salt, maker, signer_addr, taker, token_id, maker_amount, taker_amount, expiration, nonce, fee_rate_bps, side, signature_type) ==
    keccak256(<<keccak256("Order(uint256 salt,address maker,address signer,address taker,uint256 tokenId,uint256 makerAmount,uint256 takerAmount,uint256 expiration,uint256 nonce,uint256 feeRateBps,uint8 side,uint8 signatureType)"),
                salt, maker, signer_addr, taker, token_id, maker_amount,
                taker_amount, expiration, nonce, fee_rate_bps, side, 0>>)

order_struct_hash(salt, maker, signer_addr, taker, token_id, maker_amount, taker_amount, expiration, nonce, fee_rate_bps, side, signature_type) ==
    keccak256(<<keccak256("Order(uint256 salt,address maker,address signer,address taker,uint256 tokenId,uint256 makerAmount,uint256 takerAmount,uint256 expiration,uint256 nonce,uint256 feeRateBps,uint8 side,uint8 signatureType)"),
                salt, maker, signer_addr, taker, token_id, maker_amount,
                taker_amount, expiration, nonce, fee_rate_bps, side,
                signature_type>>)

\* the clock of the salt, as_secs_f64(): seconds and quarters of a second
as_secs_f64(now, subsec) == [quarters |-> 4 * now + subsec]

\* mutant: the product is truncated instead of rounded
salt_of_truncating(now, k) == (now.quarters * k) \div (4 * RandSteps)

\* (now * rand::random::<f64>()).round() as u64, random = k / RandSteps
salt_of(now, k) == (2 * now.quarters * k + 4 * RandSteps) \div (8 * RandSteps)

\* what a call has computed, in the order of the code
ORDER_STEPS ==
    <<"amounts", "get_contract_config", "salt", "parse_taker",
      "parse_token_id", "domain_separator", "order_struct_hash", "keccak256",
      "sign_hash">>

\* the body that create_order (355-419) and create_market_order (435-496)
\* share, after the amounts: `expiration` is what is hashed, `expiration_text`
\* what is serialized.  The outcome is the returned value, the steps that
\* ran, the calls of the signer and the struct hash and digest (if computed).
build_signed_order(self, order_args, amounts, expiration, expiration_text, options, env) ==
    LET contract_config ==
            get_contract_config(self.signer.chain_id, options.neg_risk)
    IN
    IF ~contract_config.some
    THEN [ret |-> Err("InvalidParameter", "invalid chain_id"),
          steps |-> SubSeq(ORDER_STEPS, 1, 2), signs |-> <<>>,
          struct_hash |-> None, domain_sep |-> None]
    ELSE
    LET salt == salt_of(as_secs_f64(env.now, env.subsec), env.random)
        taker_addr == unwrap_or_default(parse_address(order_args.taker))
        token_id == parse_token_id(order_args.token_id)
    IN
    IF ~token_id.ok
    THEN [ret |-> token_id,
          steps |-> SubSeq(ORDER_STEPS, 1, 5), signs |-> <<>>,
          struct_hash |-> None, domain_sep |-> None]
    ELSE
    LET domain_sep ==
            OrderBuilder_domain_separator(contract_config.val.exchange,
                                          self.signer.chain_id)
        struct_hash ==
            order_struct_hash(salt, self.funder, Signer_address(self.signer),
                              taker_addr, token_id.val, amounts[2], amounts[3],
                              expiration, order_args.nonce,
                              as_u64(order_args.fee_rate_bps), amounts[1],
                              self.sig_type)
        hash == keccak256(<<"0x1901", domain_sep, struct_hash>>)
        signature == Signer_sign_hash(self.signer, hash, env.sign_ok)
    IN
    [ret |-> IF ~signature.ok THEN signature
             ELSE Ok([salt |-> to_string(salt),
                      maker |-> to_checksum(self.funder),
                      signer |-> Signer_address_string(self.signer),
                      taker |-> order_args.taker,
                      token_id |-> order_args.token_id,
                      maker_amount |-> to_string(amounts[2]),
                      taker_amount |-> to_string(amounts[3]),
                      expiration |-> expiration_text,
                      nonce |-> to_string(order_args.nonce),
                      fee_rate_bps |-> i32_to_string(order_args.fee_rate_bps),
                      side |-> amounts[1],
                      signature_type |-> self.sig_type,
                      signature |-> signature.val]),
     steps |-> ORDER_STEPS,
     signs |-> <<[hash |-> hash, ok |-> signature.ok]>>,
     struct_hash |-> Some(struct_hash), domain_sep |-> Some(domain_sep)]

\* mutant: a neg-risk market is quantized at a tick of 0.01
OrderBuilder_create_order_neg_risk_tick(self, order_args, options, env) ==
    build_signed_order(self, order_args,
        get_order_amounts(order_args.side, order_args.size, order_args.price,
                          get_round_config(IF options.neg_risk THEN "0.01"
                                           ELSE options.tick_size), env.err),
        order_args.expiration, to_string(order_args.expiration), options, env)

OrderBuilder_create_order(self, order_args, options, env) ==
    build_signed_order(self, order_args,
        get_order_amounts(order_args.side, order_args.size, order_args.price,
                          get_round_config(options.tick_size), env.err),
        order_args.expiration, to_string(order_args.expiration), options, env)

\* mutant: a market order that expires at the time of its creation
OrderBuilder_create_market_order_expiring(self, order_args, options, env) ==
    build_signed_order(self, order_args,
        get_market_order_amounts(order_args.side, order_args.amount,
                                 order_args.price,
                                 get_round_config(options.tick_size), env.err),
        env.now, <<"0">>, options, env)

OrderBuilder_create_market_order(self, order_args, options, env) ==
    build_signed_order(self, order_args,
        get_market_order_amounts(order_args.side, order_args.amount,
                                 order_args.price,
                                 get_round_config(options.tick_size), env.err),
        0, <<"0">>, options, env)

---------------------------------------------------------------------------
(* build_hmac_signature (src/src/signing/hmac.rs). *)

\* the alphabet of base64::engine::general_purpose::URL_SAFE
URL_SAFE ==
    <<"A", "B", "C", "D", "E", "F", "G", "H", "I", "J", "K", "L", "M", "N",
      "O", "P", "Q", "R", "S", "T", "U", "V", "W", "X", "Y", "Z",
      "a", "b", "c", "d", "e", "f", "g", "h", "i", "j", "k", "l", "m", "n",
      "o", "p", "q", "r", "s", "t", "u", "v", "w", "x", "y", "z",
      "0", "1", "2", "3", "4", "5", "6", "7", "8", "9", "-", "_">>

\* the six bits of a symbol; 64 for a character outside the alphabet
sextet(c) ==
    IF \E i \in 1 .. 64 : URL_SAFE[i] = c
    THEN (CHOOSE i \in 1 .. 64 : URL_SAFE[i] = c) - 1
    ELSE 64

\* the bytes of whole groups of four symbols
RECURSIVE decode_quads(_)
decode_quads(text) ==
    IF Len(text) < 4 THEN <<>>
    ELSE LET bits == ((sextet(text[1]) * 64 + sextet(text[2])) * 64
                      + sextet(text[3])) * 64 + sextet(text[4])
         IN  <<bits \div 65536, (bits \div 256) % 256, bits % 256>>
             \o decode_quads(SubSeq(text, 5, Len(text)))

\* the bytes of the last, partial group: two symbols carry one byte, three
\* carry two, and the bits left over must be zero
decode_tail(text) ==
    CASE Len(text) = 0 -> Ok(<<>>)
      [] Len(text) = 2 ->
           LET bits == sextet(text[1]) * 64 + sextet(text[2]) IN
           IF bits % 16 = 0 THEN Ok(<<bits \div 16>>)
           ELSE Err("DecodeError", "InvalidLastSymbol")
      [] Len(text) = 3 ->
           LET bits == (sextet(text[1]) * 64 + sextet(text[2])) * 64
                       + sextet(text[3]) IN
           IF bits % 4 = 0 THEN Ok(<<bits \div 1024, (bits \div 4) % 256>>)
           ELSE Err("DecodeError", "InvalidLastSymbol")
      [] OTHER -> Err("DecodeError", "InvalidLength")

\* URL_SAFE.decode: padded input, the symbols of the URL-safe alphabet
URL_SAFE_decode(text) ==
    LET len == Len(text)
        pad == IF len >= 2 /\ text[len] = "=" /\ text[len - 1] = "=" THEN 2
               ELSE IF len >= 1 /\ text[len] = "=" THEN 1 ELSE 0
        data == SubSeq(text, 1, len - pad)
        whole == 4 * (Len(data) \div 4)
        tail == decode_tail(SubSeq(data, whole + 1, Len(data)))
    IN  IF len % 4 # 0 THEN Err("DecodeError", "InvalidPadding")
        ELSE IF \E k \in 1 .. Len(data) : sextet(data[k]) = 64
        THEN Err("DecodeError", "InvalidByte")
        ELSE IF ~tail.ok THEN tail
        ELSE Ok(decode_quads(SubSeq(data, 1, whole)) \o tail.val)

\* URL_SAFE.encode of a MAC: one text for each MAC
URL_SAFE_encode(bytes) == [base64url |-> bytes]

\* HMAC pads a short key with zero bytes, so trailing zeros do not count
RECURSIVE hmac_key(_)
hmac_key(key) ==
    IF key # <<>> /\ key[Len(key)] = 0
    THEN hmac_key(SubSeq(key, 1, Len(key) - 1))
    ELSE key

\* HmacSha256::new_from_slice(key), update(message), finalize(): a MAC is
\* named by its key and its message
hmac_sha256(key, message) == [hmac_sha256 |-> [key |-> hmac_key(key), message |-> message]]

\* a panic of the program, in the shape of a failed result
Panic(message) == [ok |-> FALSE, variant |-> "panic", message |-> message]

\* mutant: method and path are joined with a separator
build_hmac_signature_separated(secret, timestamp, method, request_path, body) ==
    LET decoded_secret == URL_SAFE_decode(secret)
        message == to_string(timestamp) \o method \o <<":">> \o request_path
    IN  IF ~decoded_secret.ok THEN Panic("invalid base64 secret")
        ELSE URL_SAFE_encode(hmac_sha256(decoded_secret.val,
                 IF body.some THEN message \o body.val ELSE message))

build_hmac_signature(secret, timestamp, method, request_path, body) ==
    LET decoded_secret == URL_SAFE_decode(secret)
        message == to_string(timestamp) \o method \o request_path
    IN  IF ~decoded_secret.ok THEN Panic("invalid base64 secret")
        ELSE URL_SAFE_encode(hmac_sha256(decoded_secret.val,
                 IF body.some THEN message \o body.val ELSE message))

---------------------------------------------------------------------------
(* The login challenge (src/src/signing/eip712.rs) and the request headers *)
(* (src/src/headers.rs).                                                   *)

MSG_TO_SIGN == "This message attests that I control the given wallet"

eip712_domain_separator(chain_id) ==
    keccak256(<<keccak256("EIP712Domain(string name,string version,uint256 chainId)"),
                keccak256("ClobAuthDomain"), keccak256("1"), chain_id>>)

\* mutant: the timestamp is hashed as the bytes of the integer, not as its
\* decimal text
eip712_struct_hash_raw_timestamp(address, timestamp, nonce) ==
    keccak256(<<keccak256("ClobAuth(address address,string timestamp,uint256 nonce,string message)"),
                address, keccak256(<<"to_be_bytes", timestamp>>), nonce,
                keccak256(MSG_TO_SIGN)>>)

eip712_struct_hash(address, timestamp, nonce) ==
    keccak256(<<keccak256("ClobAuth(address address,string timestamp,uint256 nonce,string message)"),
                address, keccak256(to_string(timestamp)), nonce,
                keccak256(MSG_TO_SIGN)>>)

\* the value returned and the calls of the signer that were made
sign_clob_auth_message(signer, timestamp, nonce, sign_ok) ==
    LET domain_sep == eip712_domain_separator(signer.chain_id)
        struct_h == eip712_struct_hash(Signer_address(signer), timestamp, nonce)
        hash == keccak256(<<"0x1901", domain_sep, struct_h>>)
        signature == Signer_sign_hash(signer, hash, sign_ok)
    IN  [ret |-> signature, signs |-> <<[hash |-> hash, ok |-> signature.ok]>>]

\* SystemTime::now() in whole seconds.  The system clock is the sequence of
\* the readings it gives from now on: a read takes the first and leaves the
\* clock at the rest.
current_timestamp(clock) == Head(clock)

\* the clock whose next reading is now and that ticks between two readings
clock_at(now) == <<now, now + 1>>

\* mutant: the challenge is signed for nonce 0 whatever the header says
create_level_1_headers_signing_zero(signer, nonce, clock, sign_ok) ==
    LET timestamp == current_timestamp(clock)
        n == IF nonce.some THEN nonce.val ELSE 0
        signed == sign_clob_auth_message(signer, timestamp, 0, sign_ok)
    IN  [ret |-> IF ~signed.ret.ok THEN signed.ret
                 ELSE Ok([address |-> Signer_address_string(signer),
                          signature |-> signed.ret.val,
                          timestamp |-> to_string(timestamp),
                          nonce |-> to_string(n)]),
         signs |-> signed.signs,
         clock |-> Tail(clock)]

\* the value returned, the calls of the signer that were made and the clock
\* after the call
create_level_1_headers(signer, nonce, clock, sign_ok) ==
    LET timestamp == current_timestamp(clock)
        n == IF nonce.some THEN nonce.val ELSE 0
        signed == sign_clob_auth_message(signer, timestamp, n, sign_ok)
    IN  [ret |-> IF ~signed.ret.ok THEN signed.ret
                 ELSE Ok([address |-> Signer_address_string(signer),
                          signature |-> signed.ret.val,
                          timestamp |-> to_string(timestamp),
                          nonce |-> to_string(n)]),
         signs |-> signed.signs,
         clock |-> Tail(clock)]

\* mutant: the header carries a second reading of the clock
create_level_2_headers_rereading(signer, creds, method, request_path, body, clock) ==
    LET timestamp == current_timestamp(clock)
        signature == build_hmac_signature(creds.api_secret, timestamp, method,
                                          request_path, body)
    IN  [ret |-> IF "base64url" \notin DOMAIN signature THEN signature
                 ELSE [address |-> Signer_address_string(signer),
                       signature |-> signature,
                       timestamp |-> to_string(current_timestamp(Tail(clock))),
                       api_key |-> creds.api_key,
                       passphrase |-> creds.api_passphrase],
         clock |-> Tail(Tail(clock))]

\* the headers (or the panic of build_hmac_signature) and the clock after
\* the call
create_level_2_headers(signer, creds, method, request_path, body, clock) ==
    LET timestamp == current_timestamp(clock)
        signature == build_hmac_signature(creds.api_secret, timestamp, method,
                                          request_path, body)
    IN  [ret |-> IF "base64url" \notin DOMAIN signature THEN signature
                 ELSE [address |-> Signer_address_string(signer),
                       signature |-> signature,
                       timestamp |-> to_string(timestamp),
                       api_key |-> creds.api_key,
                       passphrase |-> creds.api_passphrase],
         clock |-> Tail(clock)]

---------------------------------------------------------------------------
(* ClobClient (src/src/client.rs): construction and configuration. *)

L0 == 0

L1 == 1

L2 == 2

\* HashMap: a function on the keys that were inserted
EmptyMap == [k \in {} |-> None]

insert(map, key, value) ==
    [k \in DOMAIN map \cup {key} |-> IF k = key THEN value ELSE map[k]]

\* the host without its trailing "/"
ClobClient_new(host) ==
    [host |-> IF host # <<>> /\ host[Len(host)] = "/"
              THEN SubSeq(host, 1, Len(host) - 1) ELSE host,
     chain_id |-> CHAIN_ID, signer |-> None, creds |-> None,
     order_builder |-> None, mode |-> L0,
     tick_sizes |-> EmptyMap, neg_risk |-> EmptyMap, fee_rates |-> EmptyMap]

\* Ok(the client) or the error of Signer::new; the client is consumed
ClobClient_with_signer(self, private_key) ==
    LET signer == Signer_new(private_key, self.chain_id) IN
    IF ~signer.ok THEN signer
    ELSE Ok([self EXCEPT !.signer = Some(signer.val),
                         !.order_builder = Some(OrderBuilder_new(signer.val)),
                         !.mode = L1])

\* with_creds (76-82) and set_creds (84-89)
ClobClient_set_creds(self, creds) ==
    [self EXCEPT !.creds = Some(creds),
                 !.mode = IF self.signer.some THEN L2 ELSE self.mode]

\* set_funder (101-109): the client after the call and the value returned
ClobClient_set_funder(self, funder) ==
    LET funder_addr == parse_address(funder) IN
    IF ~funder_addr.ok
    THEN [client |-> self,
          ret |-> Err("InvalidParameter", "invalid funder address")]
    ELSE [client |-> IF self.order_builder.some
                     THEN [self EXCEPT !.order_builder =
                              Some(OrderBuilder_with_funder(self.order_builder.val,
                                                            funder_addr.val))]
                     ELSE self,
          ret |-> Ok(<<>>)]

\* with_signature_type (111-116) and set_signature_type (118-122)
ClobClient_set_signature_type(self, sig_type) ==
    IF self.order_builder.some
    THEN [self EXCEPT !.order_builder =
             Some(OrderBuilder_with_sig_type(self.order_builder.val, sig_type))]
    ELSE self

assert_l1(self) ==
    IF self.mode < L1
    THEN Err("AuthRequired", "L1 auth required (provide private key)")
    ELSE IF ~self.signer.some
    THEN Err("AuthRequired", "L1 auth required (provide private key)")
    ELSE Ok(self.signer.val)

assert_l2(self) ==
    IF self.mode < L2
    THEN Err("AuthRequired", "L2 auth required (provide API credentials)")
    ELSE IF ~self.signer.some
    THEN Err("AuthRequired", "L2 auth required")
    ELSE IF ~self.creds.some
    THEN Err("AuthRequired", "L2 auth required (provide API credentials)")
    ELSE Ok(<<self.signer.val, self.creds.val>>)

---------------------------------------------------------------------------
(* ClobClient: the operations.  An operation yields the value returned,    *)
(* the client after it, the HTTP requests it sent and the calls of the     *)
(* signer it made.  What the server answers is drawn by the caller: "ok",  *)
(* a status that is no success, a transport error, a body that is no JSON. *)

Responses == {"ok", "status", "transport", "json"}

\* the HTTP methods, as the text that is signed
GET == <<"G", "E", "T">>

POST == <<"P", "O", "S", "T">>

DELETE == <<"D", "E", "L", "E", "T", "E">>

\* the error of an answer that is not "ok" (the HTTP helpers, 718-898)
http_error(resp) ==
    CASE resp = "transport" -> Err("Http", "request failed")
      [] resp = "status" -> Err("Api", "HTTP status")
      [] OTHER -> Err("Json", "invalid body")

\* mutant: the tick size is fetched though it is cached
get_tick_size_refetching(self, token_id, env) ==
    LET request == [method |-> GET, auth |-> None,
                    path |-> <<"/tick-size", "?token_id=", token_id>>]
    IN  IF env.resp # "ok"
        THEN [ret |-> http_error(env.resp), client |-> self,
              requests |-> <<request>>]
        ELSE [ret |-> Ok(env.tick),
              client |-> [self EXCEPT !.tick_sizes =
                             insert(@, token_id, env.tick)],
              requests |-> <<request>>]

get_tick_size(self, token_id, env) ==
    IF token_id \in DOMAIN self.tick_sizes
    THEN [ret |-> Ok(self.tick_sizes[token_id]), client |-> self,
          requests |-> <<>>]
    ELSE LET request == [method |-> GET, auth |-> None,
                         path |-> <<"/tick-size", "?token_id=", token_id>>]
         IN  IF env.resp # "ok"
             THEN [ret |-> http_error(env.resp), client |-> self,
                   requests |-> <<request>>]
             ELSE [ret |-> Ok(env.tick),
                   client |-> [self EXCEPT !.tick_sizes =
                                  insert(@, token_id, env.tick)],
                   requests |-> <<request>>]

get_neg_risk(self, token_id, env) ==
    IF token_id \in DOMAIN self.neg_risk
    THEN [ret |-> Ok(self.neg_risk[token_id]), client |-> self,
          requests |-> <<>>]
    ELSE LET request == [method |-> GET, auth |-> None,
                         path |-> <<"/neg-risk", "?token_id=", token_id>>]
         IN  IF env.resp # "ok"
             THEN [ret |-> http_error(env.resp), client |-> self,
                   requests |-> <<request>>]
             ELSE [ret |-> Ok(env.neg),
                   client |-> [self EXCEPT !.neg_risk =
                                  insert(@, token_id, env.neg)],
                   requests |-> <<request>>]

\* resp.base_fee.unwrap_or(0)
unwrap_or(option, default) == IF option.some THEN option.val ELSE default

get_fee_rate_bps(self, token_id, env) ==
    IF token_id \in DOMAIN self.fee_rates
    THEN [ret |-> Ok(self.fee_rates[token_id]), client |-> self,
          requests |-> <<>>]
    ELSE LET request == [method |-> GET, auth |-> None,
                         path |-> <<"/fee-rate", "?token_id=", token_id>>]
             fee_rate == unwrap_or(env.base_fee, 0)
         IN  IF env.resp # "ok"
             THEN [ret |-> http_error(env.resp), client |-> self,
                   requests |-> <<request>>]
             ELSE [ret |-> Ok(fee_rate),
                   client |-> [self EXCEPT !.fee_rates =
                                  insert(@, token_id, fee_rate)],
                   requests |-> <<request>>]

\* src/src/config.rs, lines 7-8
END_CURSOR == "LTE="

FIRST_CURSOR == "MA=="

\* get_markets_page (309-313): the request and the value returned; server
\* maps a cursor to the page it answers with, resp is how it answers
get_markets_page(self, cursor, server, resp) ==
    LET at == IF cursor.some THEN cursor.val ELSE FIRST_CURSOR IN
    [ret |-> IF resp = "ok" THEN Ok(server[at]) ELSE http_error(resp),
     request |-> [method |-> GET, auth |-> None,
                  path |-> <<"/markets", "?next_cursor=", at>>]]

\* the frame of get_markets (315-317) before its loop
get_markets_enter ==
    [pc |-> "loop", results |-> <<>>, cursor |-> FIRST_CURSOR,
     requests |-> <<>>, ret |-> None]

\* mutant: the loop ends before it takes the data of the last page
get_markets_iteration_dropping_last(self, loc, server, resp) ==
    LET page == get_markets_page(self, Some(loc.cursor), server, resp)
        requests == Append(loc.requests, page.request)
    IN  IF ~page.ret.ok
        THEN [pc |-> "returned", requests |-> requests, ret |-> page.ret]
        ELSE IF page.ret.val.next_cursor = END_CURSOR
        THEN [pc |-> "returned", requests |-> requests,
              ret |-> Ok(loc.results)]
        ELSE [loc EXCEPT !.results = loc.results \o page.ret.val.data,
                         !.requests = requests,
                         !.cursor = page.ret.val.next_cursor]

\* one iteration of the loop of get_markets (319-327) from the frame loc:
\* the frame after it, or what is left when the function has returned
get_markets_iteration(self, loc, server, resp) ==
    LET page == get_markets_page(self, Some(loc.cursor), server, resp)
        requests == Append(loc.requests, page.request)
        results == loc.results \o page.ret.val.data
    IN  IF ~page.ret.ok
        THEN [pc |-> "returned", requests |-> requests, ret |-> page.ret]
        ELSE IF page.ret.val.next_cursor = END_CURSOR
        THEN [pc |-> "returned", requests |-> requests, ret |-> Ok(results)]
        ELSE [loc EXCEPT !.results = results, !.requests = requests,
                         !.cursor = page.ret.val.next_cursor]

\* create_order 449-462, create_market_order 478-491: the tick size and the
\* neg-risk flag of the options, else of the cache or the server; the second
\* lookup gets the second answer
resolve_options(self, token_id, options, env) ==
    LET tick == IF options.some /\ options.val.tick_size.some
                THEN [ret |-> Ok(options.val.tick_size.val), client |-> self,
                      requests |-> <<>>]
                ELSE get_tick_size(self, token_id, env)
    IN
    IF ~tick.ret.ok THEN tick
    ELSE
    LET neg == IF options.some /\ options.val.neg_risk.some
               THEN [ret |-> Ok(options.val.neg_risk.val),
                     client |-> tick.client, requests |-> <<>>]
               ELSE get_neg_risk(tick.client, token_id,
                                 [env EXCEPT !.resp = env.resp2])
    IN
    [ret |-> IF ~neg.ret.ok THEN neg.ret
             ELSE Ok([tick_size |-> tick.ret.val, neg_risk |-> neg.ret.val]),
     client |-> neg.client,
     requests |-> tick.requests \o neg.requests]

\* create_order after assert_l1 (449-468)
create_order_authorized(self, order_args, options, env) ==
    LET create_options ==
            resolve_options(self, order_args.token_id, options, env)
    IN
    IF ~create_options.ret.ok
    THEN [ret |-> create_options.ret, client |-> create_options.client,
          requests |-> create_options.requests, signs |-> <<>>]
    ELSE IF ~self.order_builder.some
    THEN [ret |-> Err("AuthRequired", "order builder not initialized"),
          client |-> create_options.client,
          requests |-> create_options.requests, signs |-> <<>>]
    ELSE LET built == OrderBuilder_create_order(self.order_builder.val,
                          order_args, create_options.ret.val, env)
         IN  [ret |-> built.ret, client |-> create_options.client,
              requests |-> create_options.requests, signs |-> built.signs]

\* mutant: create_order without its assert_l1
ClobClient_create_order_unasserted(self, order_args, options, env) ==
    create_order_authorized(self, order_args, options, env)

ClobClient_create_order(self, order_args, options, env) ==
    IF ~assert_l1(self).ok
    THEN [ret |-> assert_l1(self), client |-> self, requests |-> <<>>,
          signs |-> <<>>]
    ELSE create_order_authorized(self, order_args, options, env)

ClobClient_create_market_order(self, order_args, options, env) ==
    IF ~assert_l1(self).ok
    THEN [ret |-> assert_l1(self), client |-> self, requests |-> <<>>,
          signs |-> <<>>]
    ELSE
    LET create_options ==
            resolve_options(self, order_args.token_id, options, env)
    IN
    IF ~create_options.ret.ok
    THEN [ret |-> create_options.ret, client |-> create_options.client,
          requests |-> create_options.requests, signs |-> <<>>]
    ELSE IF ~self.order_builder.some
    THEN [ret |-> Err("AuthRequired", "order builder not initialized"),
          client |-> create_options.client,
          requests |-> create_options.requests, signs |-> <<>>]
    ELSE LET built == OrderBuilder_create_market_order(
                          self.order_builder.val, order_args,
                          create_options.ret.val, env)
         IN  [ret |-> built.ret, client |-> create_options.client,
              requests |-> create_options.requests, signs |-> built.signs]

\* create_api_key (375-403) and derive_api_key (405-433) differ in the
\* method and the endpoint
api_key_request(self, method, endpoint, nonce, env) ==
    LET signer == assert_l1(self) IN
    IF ~signer.ok
    THEN [ret |-> signer, client |-> self, requests |-> <<>>, signs |-> <<>>]
    ELSE
    LET headers == create_level_1_headers(signer.val, nonce,
                                          clock_at(env.now), env.sign_ok)
    IN
    IF ~headers.ret.ok
    THEN [ret |-> headers.ret, client |-> self, requests |-> <<>>,
          signs |-> headers.signs]
    ELSE [ret |-> IF env.resp = "ok" THEN Ok(env.creds)
                  ELSE http_error(env.resp),
          client |-> self,
          requests |-> <<[method |-> method, path |-> <<endpoint>>,
                          auth |-> Some(headers.ret.val)]>>,
          signs |-> headers.signs]

create_api_key(self, nonce, env) ==
    api_key_request(self, POST, "endpoints::CREATE_API_KEY", nonce, env)

derive_api_key(self, nonce, env) ==
    api_key_request(self, GET, "endpoints::DERIVE_API_KEY", nonce, env)

\* mutant: the error of create_api_key is returned
create_or_derive_api_key_without_derive(self, nonce, env) ==
    create_api_key(self, nonce, env)

\* what derive_api_key draws when it is the second call: the signer's second
\* answer, the server's second and the clock as it is by then
second_call(env) ==
    [env EXCEPT !.sign_ok = env.sign_ok2, !.resp = env.resp2,
                !.now = env.now + env.later]

create_or_derive_api_key(self, nonce, env) ==
    LET created == create_api_key(self, nonce, env) IN
    IF created.ret.ok THEN created
    ELSE LET derived == derive_api_key(self, nonce, second_call(env))
         IN  [ret |-> derived.ret, client |-> derived.client,
              requests |-> created.requests \o derived.requests,
              signs |-> created.signs \o derived.signs]

\* the operations of level 2 (502-716): the method and the path that are
\* signed and whether a body is signed and sent.  The texts of the endpoints
\* and of the JSON bodies are kept as one piece each.
L2_OPERATIONS ==
    { [name |-> "get_api_keys", method |-> GET,
       path |-> <<"endpoints::GET_API_KEYS">>, body |-> None],
      [name |-> "delete_api_key", method |-> DELETE,
       path |-> <<"endpoints::DELETE_API_KEY">>, body |-> None],
      [name |-> "post_order", method |-> POST,
       path |-> <<"endpoints::POST_ORDER">>,
       body |-> Some(<<"{order,owner,orderType}">>)],
      [name |-> "cancel", method |-> DELETE,
       path |-> <<"endpoints::CANCEL">>, body |-> Some(<<"{orderID}">>)],
      [name |-> "cancel_orders", method |-> DELETE,
       path |-> <<"endpoints::CANCEL_ORDERS">>, body |-> Some(<<"[order_ids]">>)],
      [name |-> "cancel_all", method |-> DELETE,
       path |-> <<"endpoints::CANCEL_ALL">>, body |-> None],
      [name |-> "get_orders", method |-> GET,
       path |-> <<"endpoints::ORDERS">>, body |-> None],
      [name |-> "get_order", method |-> GET,
       path |-> <<"endpoints::GET_ORDER", "order_id">>, body |-> None],
      [name |-> "get_trades", method |-> GET,
       path |-> <<"endpoints::TRADES">>, body |-> None],
      [name |-> "get_balance_allowance", method |-> GET,
       path |-> <<"endpoints::GET_BALANCE_ALLOWANCE">>, body |-> None],
      [name |-> "update_balance_allowance", method |-> GET,
       path |-> <<"endpoints::UPDATE_BALANCE_ALLOWANCE">>, body |-> None] }

\* an operation of level 2: assert_l2, the headers, the request
l2_operation(self, op, env) ==
    LET auth == assert_l2(self) IN
    IF ~auth.ok
    THEN [ret |-> auth, client |-> self, requests |-> <<>>, signs |-> <<>>]
    ELSE
    LET headers == create_level_2_headers(auth.val[1], auth.val[2], op.method,
                                          op.path, op.body,
                                          clock_at(env.now)).ret
    IN
    IF "signature" \notin DOMAIN headers
    THEN [ret |-> headers, client |-> self, requests |-> <<>>, signs |-> <<>>]
    ELSE [ret |-> IF env.resp = "ok" THEN Ok("json") ELSE http_error(env.resp),
          client |-> self,
          requests |-> <<[method |-> op.method, path |-> op.path,
                          auth |-> Some(headers)]>>,
          signs |-> <<>>]

---------------------------------------------------------------------------
(* The amounts harness: Init draws a tick size, a price and a size, the    *)
(* actions apply get_order_amounts to them.                                *)

Side == {"BUY", "SELL"}

FlErr == {-1, 0, 1}

\* half-cent steps, in units of 10^-4
GridSizes == { Dec(c * 100 + o, 4) : c \in 0 .. MaxCents, o \in {0, 50} }

\* tenths of a tick
GridPrices(ts) == { Dec(j, ROUNDING_CONFIG[ts].price + 1) : j \in 0 .. MaxPrice }

\* the vectors of tests/order_builder_tests.rs (tick 0.01)
TestVectors ==
    { [tick |-> "0.01", price |-> Dec(24, 2), size |-> Dec(15, 0)],
      [tick |-> "0.01", price |-> Dec(78, 2), size |-> Dec(128205, 4)] }

AmountInputs ==
    UNION { { [tick |-> ts, price |-> p, size |-> s] :
                p \in GridPrices(ts), s \in GridSizes } : ts \in TickSize }
    \cup TestVectors

\* a harness that a specification does not run stays off
AmountsOff == amt = [phase |-> "off"]

BuilderOff == ob = None /\ ord = [phase |-> "off"]

HmacOff == hm = [phase |-> "off"]

ClientOff == client = None /\ call = [phase |-> "off"]

SigningOff == hd = [phase |-> "off"]

ConcurrentOff == inv = [phase |-> "off"]

InitAmounts ==
    /\ BuilderOff /\ HmacOff /\ ClientOff /\ SigningOff /\ ConcurrentOff
    /\ amt \in { [phase |-> "input", tick |-> i.tick, price |-> i.price,
                  size |-> i.size, side |-> "BUY", err |-> 0,
                  out |-> <<0, 0, 0>>] : i \in AmountInputs }

OrderAmounts(side) ==
    /\ amt.phase = "input"
    /\ \E err \in FlErr :
         amt' = [amt EXCEPT
                   !.phase = "done", !.side = side, !.err = err,
                   !.out = get_order_amounts(side, amt.size, amt.price,
                                             get_round_config(amt.tick), err)]
    /\ UNCHANGED <<hd, inv, ob, ord, hm, client, call>>

BuyAmounts == OrderAmounts("BUY")

SellAmounts == OrderAmounts("SELL")

NextAmounts == BuyAmounts \/ SellAmounts

SpecAmounts == InitAmounts /\ [][NextAmounts]_vars

---------------------------------------------------------------------------
(* The large-orders harness: Init draws a size of hundreds of thousands of *)
(* shares and a price of tick size 0.0001, the actions apply               *)
(* get_order_amounts to them.  The rounding error of the product is the    *)
(* one of binary64 (F64_LARGE_PRODUCT_BELOW).                              *)

\* 530 000, 540 000, ... shares
LargeSizes == { Dec((53 + k) * 10000, 0) : k \in 0 .. MaxLarge }

\* 0.8500, 0.8501, ...
LargePrices == { Dec(8500 + j, 4) : j \in 0 .. MaxPrice }

\* the sign of the rounding error of size * price
LargeErr(size, price) ==
    IF <<size.v \div 10000, price.v>> \in F64_LARGE_PRODUCT_BELOW THEN -1
    ELSE 0

InitLarge ==
    /\ BuilderOff /\ HmacOff /\ ClientOff /\ SigningOff /\ ConcurrentOff
    /\ amt \in { [phase |-> "large", tick |-> "0.0001", price |-> p,
                  size |-> s, side |-> "BUY", err |-> 0,
                  out |-> <<0, 0, 0>>] : p \in LargePrices, s \in LargeSizes }

LargeOrderAmounts(side) ==
    /\ amt.phase = "large"
    /\ amt' = [amt EXCEPT
                 !.phase = "large_done", !.side = side,
                 !.err = LargeErr(amt.size, amt.price),
                 !.out = get_order_amounts(side, amt.size, amt.price,
                                           get_round_config(amt.tick),
                                           LargeErr(amt.size, amt.price))]
    /\ UNCHANGED <<hd, inv, ob, ord, hm, client, call>>

LargeBuyAmounts == LargeOrderAmounts("BUY")

LargeSellAmounts == LargeOrderAmounts("SELL")

NextLarge == LargeBuyAmounts \/ LargeSellAmounts

SpecLarge == InitLarge /\ [][NextLarge]_vars

---------------------------------------------------------------------------
(* The market-amounts harness: Init draws a tick size, a price and an      *)
(* amount, the actions apply get_market_order_amounts to them.  A market   *)
(* BUY divides by the price, so the prices are taken from 0.8 upwards and  *)
(* the amounts of the finest tick from the lower half of the grid: the     *)
(* quotient, kept to amount + 4 decimals, stays a 32-bit integer.          *)

\* tenths of a tick above 0.8
MarketPrices(ts) ==
    { Dec(8 * Pow10(ROUNDING_CONFIG[ts].price) + j, ROUNDING_CONFIG[ts].price + 1) :
        j \in 0 .. MaxPrice }

\* half-cent steps, in units of 10^-4
MarketSizes(ts) ==
    { Dec(c * 100 + o, 4) :
        c \in 0 .. (IF ROUNDING_CONFIG[ts].amount + 4 > 9
                    THEN MaxCents \div 2 ELSE MaxCents),
        o \in {0, 50} }

MarketInputs ==
    UNION { { [tick |-> ts, price |-> p, amount |-> a] :
                p \in MarketPrices(ts), a \in MarketSizes(ts) } : ts \in TickSize }

InitMarket ==
    /\ BuilderOff /\ HmacOff /\ ClientOff /\ SigningOff /\ ConcurrentOff
    /\ amt \in { [phase |-> "market", tick |-> i.tick, price |-> i.price,
                  amount |-> i.amount, side |-> "BUY", err |-> 0,
                  out |-> <<0, 0, 0>>] : i \in MarketInputs }

MarketOrderAmounts(side) ==
    /\ amt.phase = "market"
    /\ \E err \in FlErr :
         amt' = [amt EXCEPT
                   !.phase = "market_done", !.side = side, !.err = err,
                   !.out = get_market_order_amounts(side, amt.amount, amt.price,
                                                    get_round_config(amt.tick),
                                                    err)]
    /\ UNCHANGED <<hd, inv, ob, ord, hm, client, call>>

MarketBuyAmounts == MarketOrderAmounts("BUY")

MarketSellAmounts == MarketOrderAmounts("SELL")

NextMarket == MarketBuyAmounts \/ MarketSellAmounts

SpecMarket == InitMarket /\ [][NextMarket]_vars

---------------------------------------------------------------------------
(* The builder harness: a caller owns an OrderBuilder, configures it and   *)
(* asks it for orders; ord is the call it made last and what came of it.   *)

\* Polygon and a chain the contract table does not know
ChainIds == {CHAIN_ID, 80002}

SigTypes == {0, 1, 2}

\* decimal, hex, a letter in a decimal, a letter that is no hex digit
TokenIds ==
    { <<"1", "2", "3">>, <<"0", "x", "7", "b">>, <<"1", "2", "a">>,
      <<"0", "x", "z">> }

\* the zero address, a well-formed address, a hex string that is too short
Takers ==
    { ZERO_ADDRESS, "0x70997970C51812dc3A010C7d01b50e0d17dc79C8", "0x1234" }

OrderArgs ==
    [token_id : TokenIds, price : {Dec(56, 2)}, size : {Dec(2104, 2)},
     side : Side, fee_rate_bps : {0, 100}, nonce : {0, 1},
     expiration : {0, 1700}, taker : Takers]

MarketOrderArgs ==
    [token_id : TokenIds, amount : {Dec(15, 1)}, side : Side,
     price : {Dec(56, 2)}, fee_rate_bps : {0, 100}, nonce : {0, 1},
     taker : Takers, order_type : {"FOK"}]

CreateOrderOptions == [tick_size : {"0.1", "0.01"}, neg_risk : BOOLEAN]

\* the quarters of a second the clock shows past the second
SubSecs == {0, 3}

\* the random numbers drawn: the least and the greatest, in steps
Randoms == {0, RandSteps - 1}

\* what a call draws from its environment: the f64 rounding error, the
\* clock, the random number and whether the signer signs
Env == [err : FlErr, now : 1 .. MaxNow, subsec : SubSecs, random : Randoms,
        sign_ok : BOOLEAN]

InitBuilder ==
    /\ AmountsOff /\ HmacOff /\ ClientOff /\ SigningOff /\ ConcurrentOff
    /\ \E chain_id \in ChainIds :
         ob = OrderBuilder_new(
                  Signer_new(<<"0x", "ac0974bec39a17e36ba4a6b4d238ff944bacb478cbed5efcae784d7bf4f2ff80">>,
                             chain_id).val)
    /\ ord = [phase |-> "idle"]

WithSigType ==
    /\ ord.phase = "idle"
    /\ \E sig_type \in SigTypes :
         /\ sig_type # ob.sig_type
         /\ ob' = OrderBuilder_with_sig_type(ob, sig_type)
    /\ UNCHANGED <<hd, inv, amt, ord, hm, client, call>>

WithFunder ==
    /\ ord.phase = "idle"
    /\ \E funder \in {"f39f", "7099"} :
         /\ funder # ob.funder
         /\ ob' = OrderBuilder_with_funder(ob, funder)
    /\ UNCHANGED <<hd, inv, amt, ord, hm, client, call>>

\* mutant: a call that fails leaves the builder as new
CreateOrder_resetting_builder ==
    /\ ord.phase = "idle"
    /\ \E order_args \in OrderArgs, options \in CreateOrderOptions, env \in Env :
         LET out == OrderBuilder_create_order(ob, order_args, options, env) IN
         /\ ord' = [phase |-> "done", op |-> "create_order",
                    order_args |-> order_args, options |-> options,
                    out |-> out]
         /\ ob' = IF out.ret.ok THEN ob ELSE OrderBuilder_new(ob.signer)
    /\ UNCHANGED <<hd, inv, amt, hm, client, call>>

CreateOrder ==
    /\ ord.phase = "idle"
    /\ \E order_args \in OrderArgs, options \in CreateOrderOptions, env \in Env :
         ord' = [phase |-> "done", op |-> "create_order",
                 order_args |-> order_args, options |-> options,
                 out |-> OrderBuilder_create_order(ob, order_args, options, env)]
    /\ UNCHANGED <<hd, inv, amt, ob, hm, client, call>>

CreateMarketOrder ==
    /\ ord.phase = "idle"
    /\ \E order_args \in MarketOrderArgs, options \in CreateOrderOptions,
          env \in Env :
         ord' = [phase |-> "done", op |-> "create_market_order",
                 order_args |-> order_args, options |-> options,
                 out |-> OrderBuilder_create_market_order(ob, order_args,
                                                          options, env)]
    /\ UNCHANGED <<hd, inv, amt, ob, hm, client, call>>

\* the caller drops the result and is ready for the next call
DropOrder ==
    /\ ord.phase = "done"
    /\ ord' = [phase |-> "idle"]
    /\ UNCHANGED <<hd, inv, amt, ob, hm, client, call>>

NextBuilder ==
    WithSigType \/ WithFunder \/ CreateOrder \/ CreateMarketOrder \/ DropOrder

SpecBuilder == InitBuilder /\ [][NextBuilder]_vars


---------------------------------------------------------------------------
(* The HMAC harness: Init draws a secret, a timestamp, a method, a path    *)
(* and a body, the action applies build_hmac_signature to them.            *)

\* the secret of tests/hmac_tests.rs: 43 times "A" and the padding
TestSecret == [k \in 1 .. 44 |-> IF k = 44 THEN "=" ELSE "A"]

\* secrets of 3, 2 and 1 bytes, one in the symbols "-" and "_", the secret
\* of the tests, and three that are not URL-safe base64: a missing padding,
\* a symbol of the standard alphabet, bits left over
Secrets ==
    { <<"Q", "U", "J", "D">>, <<"Q", "U", "I", "=">>, <<"Q", "Q", "=", "=">>,
      <<"-", "_", "8", "=">>, TestSecret,
      <<"Q", "U", "J">>, <<"Q", "+", "J", "/">>, <<"Q", "R", "=", "=">> }

Timestamps == {1, 10, 1000000}

Methods == { <<"G", "E", "T">>, <<"0", "G", "E", "T">>, <<"G", "E">> }

Paths == { <<"/", "o">>, <<"T", "/", "o">>, <<"/">> }

Bodies == { None, Some(<<>>), Some(<<"o">>), Some(<<"{", "}">>) }

HmacInputs ==
    [secret : Secrets, timestamp : Timestamps, method : Methods,
     request_path : Paths, body : Bodies]

InitHmac ==
    /\ AmountsOff /\ BuilderOff /\ ClientOff /\ SigningOff /\ ConcurrentOff
    /\ \E i \in HmacInputs : hm = [phase |-> "input", in |-> i]

BuildHmacSignature ==
    /\ hm.phase = "input"
    /\ hm' = [phase |-> "done", in |-> hm.in,
              out |-> build_hmac_signature(hm.in.secret, hm.in.timestamp,
                                           hm.in.method, hm.in.request_path,
                                           hm.in.body)]
    /\ UNCHANGED <<hd, inv, amt, ob, ord, client, call>>

NextHmac == BuildHmacSignature

SpecHmac == InitHmac /\ [][NextHmac]_vars

---------------------------------------------------------------------------
(* The client harness: a caller owns a ClobClient, configures it and calls *)
(* its operations; call is the operation it called last, the client before *)
(* it and what came of it.                                                 *)

Hosts == { <<"h">>, <<"h", "/">> }

\* credentials with a secret that is base64 and with one that is not
ApiCreds ==
    { [api_key |-> "key-1", api_secret |-> <<"Q", "U", "J", "D">>,
       api_passphrase |-> "pass-1"],
      [api_key |-> "key-2", api_secret |-> <<"Q", "U", "J">>,
       api_passphrase |-> "pass-2"] }

\* texts for a funder: an address and a hex string that is too short
Funders == { "0x70997970C51812dc3A010C7d01b50e0d17dc79C8", "0x1234" }

ClientToken == <<"1", "2", "3">>

ClientOrderArgs ==
    { a \in OrderArgs :
        /\ a.token_id = ClientToken /\ a.taker = ZERO_ADDRESS
        /\ a.fee_rate_bps = 0 /\ a.nonce = 0 /\ a.expiration = 0 }

ClientMarketOrderArgs ==
    { a \in MarketOrderArgs :
        /\ a.token_id = ClientToken /\ a.taker = ZERO_ADDRESS
        /\ a.fee_rate_bps = 0 /\ a.nonce = 0 }

PartialCreateOrderOptions ==
    {None} \cup
    { Some([tick_size |-> t, neg_risk |-> n]) :
        t \in {None, Some("0.01")}, n \in {None, Some(TRUE)} }

Nonces == {None, Some(7)}

\* what an operation draws from its environment: the f64 rounding error,
\* the clock, the random number, the answers of the signer and of the server
\* (the second ones for a second signing and a second request), the seconds
\* that pass before a second reading of the clock and what the server says
\* if it answers "ok"
ClientEnv(clock, first, second, signs2) ==
    [err : {0}, now : clock, later : {0, 1}, subsec : {0}, random : Randoms,
     sign_ok : BOOLEAN, sign_ok2 : signs2, resp : first, resp2 : second,
     tick : {"0.1"}, neg : BOOLEAN,
     creds : { c \in ApiCreds : c.api_key = "key-1" }]

\* an operation with one signing at most and one request at most
OneRequestEnv ==
    { e \in ClientEnv(1 .. MaxNow, Responses, {"ok"}, {TRUE}) : e.later = 0 }

\* an operation of level 2: no signing, one request at most
NoSignEnv == { e \in OneRequestEnv : e.sign_ok /\ e.random = 0 /\ e.neg }

\* create_or_derive_api_key: two signings and two requests at most
TwoKeysEnv ==
    { e \in ClientEnv(1 .. MaxNow, {"ok", "status"}, {"ok", "status", "json"},
                      BOOLEAN) : e.random = 0 /\ e.neg }

\* create_order and create_market_order: one signing, two requests at most
OrderEnv ==
    { e \in ClientEnv({MaxNow}, {"ok", "status"}, {"ok", "transport"}, {TRUE}) :
        e.later = 0 }

InitClient ==
    /\ AmountsOff /\ BuilderOff /\ HmacOff /\ SigningOff /\ ConcurrentOff
    /\ \E host \in Hosts : client = ClobClient_new(host)
    /\ call = [phase |-> "idle"]

Idle == call.phase = "idle" /\ client # None

\* with_signer consumes the client; a key that does not parse leaves the
\* caller without one
WithSigner ==
    /\ Idle
    /\ \E private_key \in KeyTexts :
         LET made == ClobClient_with_signer(client, private_key) IN
         client' = IF made.ok THEN made.val ELSE None
    /\ UNCHANGED <<hd, inv, amt, ob, ord, hm, call>>

NewClient ==
    /\ call.phase = "idle" /\ client = None
    /\ \E host \in Hosts : client' = ClobClient_new(host)
    /\ UNCHANGED <<hd, inv, amt, ob, ord, hm, call>>

SetCreds ==
    /\ Idle
    /\ \E creds \in ApiCreds : client' = ClobClient_set_creds(client, creds)
    /\ UNCHANGED <<hd, inv, amt, ob, ord, hm, call>>

SetFunder ==
    /\ Idle
    /\ \E funder \in Funders :
         client' = ClobClient_set_funder(client, funder).client
    /\ UNCHANGED <<hd, inv, amt, ob, ord, hm, call>>

SetSignatureType ==
    /\ Idle
    /\ \E sig_type \in {0, 1} :
         client' = ClobClient_set_signature_type(client, sig_type)
    /\ UNCHANGED <<hd, inv, amt, ob, ord, hm, call>>

\* the caller calls an operation: the client becomes the client after it
Called(op, out) ==
    /\ call' = [phase |-> "done", op |-> op, pre |-> client,
                ret |-> out.ret, requests |-> out.requests,
                signs |-> out.signs]
    /\ client' = out.client
    /\ UNCHANGED <<hd, inv, amt, ob, ord, hm>>

GetTickSize ==
    /\ Idle
    /\ \E env \in OneRequestEnv :
         Called("get_tick_size",
                [signs |-> <<>>] @@ get_tick_size(client, ClientToken, env))

GetNegRisk ==
    /\ Idle
    /\ \E env \in OneRequestEnv :
         Called("get_neg_risk",
                [signs |-> <<>>] @@ get_neg_risk(client, ClientToken, env))

CreateApiKey ==
    /\ Idle
    /\ \E nonce \in Nonces, env \in OneRequestEnv :
         Called("create_api_key", create_api_key(client, nonce, env))

DeriveApiKey ==
    /\ Idle
    /\ \E nonce \in Nonces, env \in OneRequestEnv :
         Called("derive_api_key", derive_api_key(client, nonce, env))

\* the call is kept with its argument and with what it drew
CreateOrDeriveApiKey ==
    /\ Idle
    /\ \E nonce \in Nonces, env \in TwoKeysEnv :
         LET out == create_or_derive_api_key(client, nonce, env) IN
         /\ call' = [phase |-> "done", op |-> "create_or_derive_api_key",
                     pre |-> client, ret |-> out.ret,
                     requests |-> out.requests, signs |-> out.signs,
                     nonce |-> nonce, env |-> env]
         /\ client' = out.client
    /\ UNCHANGED <<hd, inv, amt, ob, ord, hm>>

ClientCreateOrder ==
    /\ Idle
    /\ \E order_args \in ClientOrderArgs,
          options \in PartialCreateOrderOptions, env \in OrderEnv :
         Called("create_order",
                ClobClient_create_order(client, order_args, options, env))

ClientCreateMarketOrder ==
    /\ Idle
    /\ \E order_args \in ClientMarketOrderArgs,
          options \in PartialCreateOrderOptions, env \in OrderEnv :
         Called("create_market_order",
                ClobClient_create_market_order(client, order_args, options,
                                               env))

L2Operation ==
    /\ Idle
    /\ \E op \in L2_OPERATIONS, env \in NoSignEnv :
         Called(op.name, l2_operation(client, op, env))

\* the caller takes the result and is ready for the next call
Return ==
    /\ call.phase = "done"
    /\ call' = [phase |-> "idle"]
    /\ UNCHANGED <<hd, inv, amt, ob, ord, hm, client>>

NextClient ==
    \/ WithSigner \/ NewClient \/ SetCreds \/ SetFunder \/ SetSignatureType
    \/ GetTickSize \/ GetNegRisk
    \/ CreateApiKey \/ DeriveApiKey \/ CreateOrDeriveApiKey
    \/ ClientCreateOrder \/ ClientCreateMarketOrder
    \/ L2Operation \/ Return

SpecClient == InitClient /\ [][NextClient]_vars

---------------------------------------------------------------------------
(* The cache harness: a caller owns a client with a signer and looks up    *)
(* tick sizes, neg-risk flags and fee rates of two tokens, directly and    *)
(* through create_order; call.fetched counts, per kind and token, the      *)
(* requests the server answered with a value (two stands for more).        *)

CacheTokens == { ClientToken, <<"4", "5", "6">> }

\* the kinds of lookup and their endpoints
CACHE_ENDPOINTS ==
    [tick_size |-> "/tick-size", neg_risk |-> "/neg-risk",
     fee_rate |-> "/fee-rate"]

CacheKeys == (DOMAIN CACHE_ENDPOINTS) \X CacheTokens

\* the cache of a kind in a client
cache_of(self, kind) ==
    CASE kind = "tick_size" -> self.tick_sizes
      [] kind = "neg_risk" -> self.neg_risk
      [] OTHER -> self.fee_rates

\* what the server may answer to a lookup
LookupEnv ==
    [resp : Responses, tick : {"0.1", "0.01"}, neg : BOOLEAN,
     base_fee : {None, Some(30)}]

InitCache ==
    /\ AmountsOff /\ BuilderOff /\ HmacOff /\ SigningOff /\ ConcurrentOff
    /\ client = ClobClient_with_signer(ClobClient_new(<<"h">>),
                     <<"0x", "ac0974bec39a17e36ba4a6b4d238ff944bacb478cbed5efcae784d7bf4f2ff80">>).val
    /\ call = [phase |-> "idle", fetched |-> [k \in CacheKeys |-> 0]]

\* the caller calls an operation for a token; answers[kind] is what the
\* server answers to a request of that kind
CacheCalled(op, token, out, answers) ==
    /\ call' = [phase |-> "done", op |-> op, token |-> token, pre |-> client,
                ret |-> out.ret, requests |-> out.requests,
                fetched |->
                    [k \in CacheKeys |->
                        IF /\ k[2] = token
                           /\ answers[k[1]] = "ok"
                           /\ \E i \in 1 .. Len(out.requests) :
                                  out.requests[i].path[1] = CACHE_ENDPOINTS[k[1]]
                        THEN IF call.fetched[k] = 0 THEN 1 ELSE 2
                        ELSE call.fetched[k]]]
    /\ client' = out.client
    /\ UNCHANGED <<hd, inv, amt, ob, ord, hm>>

\* the answers of a call that sends requests of one kind
Answers(resp) == [kind \in DOMAIN CACHE_ENDPOINTS |-> resp]

CacheGetTickSize ==
    /\ Idle
    /\ \E token \in CacheTokens, env \in LookupEnv :
         /\ env.neg /\ env.base_fee = None
         /\ CacheCalled("tick_size", token,
                        get_tick_size(client, token, env), Answers(env.resp))

CacheGetNegRisk ==
    /\ Idle
    /\ \E token \in CacheTokens, env \in LookupEnv :
         /\ env.tick = "0.1" /\ env.base_fee = None
         /\ CacheCalled("neg_risk", token,
                        get_neg_risk(client, token, env), Answers(env.resp))

CacheGetFeeRateBps ==
    /\ Idle
    /\ \E token \in CacheTokens, env \in LookupEnv :
         /\ env.tick = "0.1" /\ env.neg
         /\ CacheCalled("fee_rate", token,
                        get_fee_rate_bps(client, token, env), Answers(env.resp))

\* create_order looks the tick size up first and the neg-risk flag second
CacheCreateOrder ==
    /\ Idle
    /\ \E order_args \in ClientOrderArgs,
          options \in PartialCreateOrderOptions, env \in OrderEnv :
         /\ order_args.side = "BUY" /\ env.random = 0
         /\ CacheCalled("create_order", order_args.token_id,
                ClobClient_create_order(client, order_args, options, env),
                [tick_size |-> env.resp, neg_risk |-> env.resp2,
                 fee_rate |-> "status"])

\* with_signer on a client that has looked values up (the key is well-formed)
CacheWithSigner ==
    /\ Idle
    /\ \E private_key \in KeyTexts :
         LET made == ClobClient_with_signer(client, private_key) IN
         /\ made.ok
         /\ made.val # client
         /\ client' = made.val
    /\ UNCHANGED <<hd, inv, amt, ob, ord, hm, call>>

\* the caller takes the result and is ready for the next call
CacheReturn ==
    /\ call.phase = "done"
    /\ call' = [phase |-> "idle", fetched |-> call.fetched]
    /\ UNCHANGED <<hd, inv, amt, ob, ord, hm, client>>

NextCache ==
    \/ CacheGetTickSize \/ CacheGetNegRisk \/ CacheGetFeeRateBps
    \/ CacheCreateOrder \/ CacheWithSigner \/ CacheReturn

SpecCache == InitCache /\ [][NextCache]_vars

---------------------------------------------------------------------------
(* The configuration harness: a caller gives a client signers, funders and *)
(* signature types in any order and asks it for orders, of any fee rate,   *)
(* taker and token id.  call.funder is                                     *)
(* the funder of the last set_funder that returned Ok, call.sig_type the   *)
(* type of the last set_signature_type; call.builder_funder and            *)
(* call.builder_sig_type are those of them that were set since the last    *)
(* with_signer.                                                            *)

ConfigFunders ==
    Funders \cup { "0xC5d563A36AE78145C45a50134d48A1215220f80a" }

\* the options name the tick size and the flag: no lookup is made
ConfigOptions == Some([tick_size |-> Some("0.01"), neg_risk |-> Some(TRUE)])

ConfigEnv == { e \in OrderEnv : e.random = 0 /\ e.resp = "ok" /\ e.resp2 = "ok" /\ e.neg }

\* the arguments of the orders: a fee rate below zero is an i32 as any other
ConfigOrderArgs ==
    { [a EXCEPT !.fee_rate_bps = fee, !.taker = taker, !.token_id = token] :
        a \in ClientOrderArgs, fee \in {0, 100, -1}, taker \in Takers,
        token \in {ClientToken, <<"0", "x", "7", "b">>} }

ConfigMarketOrderArgs ==
    { [a EXCEPT !.fee_rate_bps = fee, !.taker = taker] :
        a \in ClientMarketOrderArgs, fee \in {0, -1}, taker \in Takers }

InitConfig ==
    /\ AmountsOff /\ BuilderOff /\ HmacOff /\ SigningOff /\ ConcurrentOff
    /\ client = ClobClient_new(<<"h">>)
    /\ call = [phase |-> "idle", funder |-> None, sig_type |-> None,
               builder_funder |-> None, builder_sig_type |-> None]

ConfigWithSigner ==
    /\ Idle
    /\ \E private_key \in KeyTexts :
         LET made == ClobClient_with_signer(client, private_key) IN
         /\ made.ok
         /\ client' = made.val
         /\ call' = [call EXCEPT !.builder_funder = None,
                                 !.builder_sig_type = None]
    /\ UNCHANGED <<hd, inv, amt, ob, ord, hm>>

\* with_funder (91-99) and set_funder (101-109)
ConfigSetFunder ==
    /\ Idle
    /\ \E funder \in ConfigFunders :
         LET out == ClobClient_set_funder(client, funder) IN
         /\ client' = out.client
         /\ call' = IF ~out.ret.ok THEN call
                    ELSE [call EXCEPT
                            !.funder = Some(parse_address(funder).val),
                            !.builder_funder =
                                IF client.order_builder.some
                                THEN Some(parse_address(funder).val) ELSE @]
    /\ UNCHANGED <<hd, inv, amt, ob, ord, hm>>

\* with_signature_type (111-116) and set_signature_type (118-122)
ConfigSetSignatureType ==
    /\ Idle
    /\ \E sig_type \in {1, 2} :
         /\ client' = ClobClient_set_signature_type(client, sig_type)
         /\ call' = [call EXCEPT
                       !.sig_type = Some(sig_type),
                       !.builder_sig_type =
                           IF client.order_builder.some
                           THEN Some(sig_type) ELSE @]
    /\ UNCHANGED <<hd, inv, amt, ob, ord, hm>>

ConfigOrdered(op, order_args, out) ==
    /\ call' = [call EXCEPT !.phase = "done"]
                  @@ [op |-> op, order_args |-> order_args, ret |-> out.ret,
                      signs |-> out.signs]
    /\ client' = out.client
    /\ UNCHANGED <<hd, inv, amt, ob, ord, hm>>

ConfigCreateOrder ==
    /\ Idle
    /\ \E order_args \in ConfigOrderArgs, env \in ConfigEnv :
         ConfigOrdered("create_order", order_args,
             ClobClient_create_order(client, order_args, ConfigOptions, env))

ConfigCreateMarketOrder ==
    /\ Idle
    /\ \E order_args \in ConfigMarketOrderArgs, env \in ConfigEnv :
         ConfigOrdered("create_market_order", order_args,
             ClobClient_create_market_order(client, order_args, ConfigOptions,
                                            env))

\* the caller takes the order and is ready for the next call
ConfigReturn ==
    /\ call.phase = "done"
    /\ call' = [phase |-> "idle", funder |-> call.funder,
                sig_type |-> call.sig_type,
                builder_funder |-> call.builder_funder,
                builder_sig_type |-> call.builder_sig_type]
    /\ UNCHANGED <<hd, inv, amt, ob, ord, hm, client>>

NextConfig ==
    \/ ConfigWithSigner \/ ConfigSetFunder \/ ConfigSetSignatureType
    \/ ConfigCreateOrder \/ ConfigCreateMarketOrder \/ ConfigReturn

SpecConfig == InitConfig /\ [][NextConfig]_vars

---------------------------------------------------------------------------
(* The paging harness: a caller calls get_markets against a server that    *)
(* answers a cursor with a page: some markets and the next cursor.  Each   *)
(* iteration of the loop is a step; a request may fail.  call.loc is the   *)
(* frame of the call.                                                      *)

Cursors == { FIRST_CURSOR, "MQ==", "Mg==" }

\* the pages a server may hold for a cursor: no market, one or two
Pages(cursor) ==
    [data : { <<>>, <<[id |-> cursor, n |-> 1]>>,
              <<[id |-> cursor, n |-> 1], [id |-> cursor, n |-> 2]>> },
     next_cursor : Cursors \cup {END_CURSOR}]

\* servers: the first page holds one market, the last cursor two
Servers ==
    { server \in [Cursors -> UNION { Pages(c) : c \in Cursors }] :
        /\ \A c \in Cursors : server[c] \in Pages(c)
        /\ Len(server[FIRST_CURSOR].data) = 1
        /\ Len(server["Mg=="].data) = 2 }

InitPaging ==
    /\ AmountsOff /\ BuilderOff /\ HmacOff /\ SigningOff /\ ConcurrentOff
    /\ client = ClobClient_new(<<"h">>)
    /\ call = [phase |-> "idle"]

GetMarkets ==
    /\ call.phase = "idle"
    /\ \E server \in Servers :
         call' = [phase |-> "get_markets", server |-> server,
                  loc |-> get_markets_enter]
    /\ UNCHANGED <<hd, inv, amt, ob, ord, hm, client>>

\* the loop runs while the call has not returned; the model follows it for
\* MaxPages requests
GetMarketsIteration ==
    /\ call.phase = "get_markets"
    /\ call.loc.pc = "loop"
    /\ Len(call.loc.requests) < MaxPages
    /\ \E resp \in Responses :
         call' = [call EXCEPT
                    !.loc = get_markets_iteration(client, call.loc,
                                                  call.server, resp)]
    /\ UNCHANGED <<hd, inv, amt, ob, ord, hm, client>>

\* the caller takes the result and is ready for the next call
GetMarketsReturn ==
    /\ call.phase = "get_markets"
    /\ call.loc.pc = "returned"
    /\ call' = [phase |-> "idle"]
    /\ UNCHANGED <<hd, inv, amt, ob, ord, hm, client>>

NextPaging == GetMarkets \/ GetMarketsIteration \/ GetMarketsReturn

SpecPaging == InitPaging /\ [][NextPaging]_vars

\* the call is polled until it returns: an iteration that can run does
SpecPagingFair == SpecPaging /\ WF_vars(GetMarketsIteration)

---------------------------------------------------------------------------
(* Two invocations of create_order / create_market_order on one builder,   *)
(* run concurrently.  An invocation borrows the builder (&self) and keeps   *)
(* what it computes in its own frame; between two steps of one invocation  *)
(* the other may run.  The steps are the statements of the body in their   *)
(* order: the amounts; the contract and the salt; the taker, the token id  *)
(* and the hashes; the signature and the record.                           *)

INVOCATION_STEPS == <<"amounts", "contract", "hash", "sign", "done">>

\* the frame of an invocation that has not started
new_frame ==
    [pc |-> 1,
     env |-> [err |-> 0, now |-> 1, subsec |-> 0, random |-> 0,
              sign_ok |-> TRUE],
     amounts |-> None, contract_config |-> None, salt |-> None,
     struct_hash |-> None, domain_sep |-> None, hash |-> None, ret |-> None]

\* one step of an invocation c (the operation, its arguments and options)
\* on the builder self, from the frame loc; draw is what the step reads from
\* its environment
order_step(self, c, loc, draw) ==
    CASE INVOCATION_STEPS[loc.pc] = "amounts" ->
           [loc EXCEPT
              !.pc = 2, !.env.err = draw.err,
              !.amounts =
                  Some(IF c.op = "create_order"
                       THEN get_order_amounts(c.order_args.side,
                                c.order_args.size, c.order_args.price,
                                get_round_config(c.options.tick_size), draw.err)
                       ELSE get_market_order_amounts(c.order_args.side,
                                c.order_args.amount, c.order_args.price,
                                get_round_config(c.options.tick_size), draw.err))]
      [] INVOCATION_STEPS[loc.pc] = "contract" ->
           LET contract_config ==
                   get_contract_config(self.signer.chain_id, c.options.neg_risk)
           IN  IF ~contract_config.some
               THEN [loc EXCEPT !.pc = 5,
                                !.ret = Err("InvalidParameter", "invalid chain_id")]
               ELSE [loc EXCEPT !.pc = 3, !.contract_config = contract_config,
                                !.env.now = draw.now,
                                !.env.subsec = draw.subsec,
                                !.env.random = draw.random,
                                !.salt = Some(salt_of(as_secs_f64(draw.now,
                                                                  draw.subsec),
                                                      draw.random))]
      [] INVOCATION_STEPS[loc.pc] = "hash" ->
           LET taker_addr == unwrap_or_default(parse_address(c.order_args.taker))
               token_id == parse_token_id(c.order_args.token_id)
               domain_sep ==
                   OrderBuilder_domain_separator(loc.contract_config.val.exchange,
                                                 self.signer.chain_id)
               struct_hash ==
                   order_struct_hash(loc.salt.val, self.funder,
                       Signer_address(self.signer), taker_addr, token_id.val,
                       loc.amounts.val[2], loc.amounts.val[3],
                       IF c.op = "create_order" THEN c.order_args.expiration
                       ELSE 0,
                       c.order_args.nonce, as_u64(c.order_args.fee_rate_bps),
                       loc.amounts.val[1], self.sig_type)
           IN  IF ~token_id.ok THEN [loc EXCEPT !.pc = 5, !.ret = token_id]
               ELSE [loc EXCEPT
                       !.pc = 4, !.domain_sep = Some(domain_sep),
                       !.struct_hash = Some(struct_hash),
                       !.hash = Some(keccak256(<<"0x1901", domain_sep,
                                                 struct_hash>>))]
      [] OTHER ->
           LET signature == Signer_sign_hash(self.signer, loc.hash.val,
                                             draw.sign_ok)
           IN  [loc EXCEPT
                  !.pc = 5, !.env.sign_ok = draw.sign_ok,
                  !.ret =
                     IF ~signature.ok THEN signature
                     ELSE Ok([salt |-> to_string(loc.salt.val),
                              maker |-> to_checksum(self.funder),
                              signer |-> Signer_address_string(self.signer),
                              taker |-> c.order_args.taker,
                              token_id |-> c.order_args.token_id,
                              maker_amount |-> to_string(loc.amounts.val[2]),
                              taker_amount |-> to_string(loc.amounts.val[3]),
                              expiration |->
                                  IF c.op = "create_order"
                                  THEN to_string(c.order_args.expiration)
                                  ELSE <<"0">>,
                              nonce |-> to_string(c.order_args.nonce),
                              fee_rate_bps |->
                                  i32_to_string(c.order_args.fee_rate_bps),
                              side |-> loc.amounts.val[1],
                              signature_type |-> self.sig_type,
                              signature |-> signature.val])]

\* the invocations a caller starts: a limit order, a limit order for a token
\* id that does not parse, a market BUY and a market SELL
Invocations ==
    { [op |-> "create_order", options |-> [tick_size |-> "0.01", neg_risk |-> FALSE],
       order_args |-> CHOOSE a \in OrderArgs :
           /\ a.side = "BUY" /\ a.token_id = <<"1", "2", "3">>
           /\ a.taker = ZERO_ADDRESS /\ a.fee_rate_bps = 0 /\ a.nonce = 0
           /\ a.expiration = 1700],
      [op |-> "create_order", options |-> [tick_size |-> "0.1", neg_risk |-> TRUE],
       order_args |-> CHOOSE a \in OrderArgs :
           /\ a.side = "SELL" /\ a.token_id = <<"1", "2", "a">>
           /\ a.taker = ZERO_ADDRESS /\ a.fee_rate_bps = 100 /\ a.nonce = 1
           /\ a.expiration = 0],
      [op |-> "create_market_order", options |-> [tick_size |-> "0.01", neg_risk |-> TRUE],
       order_args |-> CHOOSE a \in MarketOrderArgs :
           /\ a.side = "BUY" /\ a.token_id = <<"0", "x", "7", "b">>
           /\ a.taker = "0x1234" /\ a.fee_rate_bps = 0 /\ a.nonce = 1],
      [op |-> "create_market_order", options |-> [tick_size |-> "0.1", neg_risk |-> FALSE],
       order_args |-> CHOOSE a \in MarketOrderArgs :
           /\ a.side = "SELL" /\ a.token_id = <<"1", "2", "3">>
           /\ a.taker = ZERO_ADDRESS /\ a.fee_rate_bps = 100 /\ a.nonce = 0] }

InitConcurrent ==
    /\ AmountsOff /\ HmacOff /\ ClientOff /\ SigningOff
    /\ ord = [phase |-> "off"]
    /\ \E chain_id \in ChainIds :
         ob = OrderBuilder_with_funder(
                  OrderBuilder_new(
                      Signer_new(<<"", "ac0974bec39a17e36ba4a6b4d238ff944bacb478cbed5efcae784d7bf4f2ff80">>,
                                 chain_id).val),
                  "7099")
    /\ \E c1 \in Invocations, c2 \in Invocations :
         inv = [phase |-> "run", calls |-> <<c1, c2>>,
                t |-> <<new_frame, new_frame>>, overlap |-> FALSE]

\* mutant: the invocations work on one frame, the first's
frame_shared(i) == inv.t[1]

\* the frame that invocation i works on: its own
frame(i) == inv.t[i]

InFlight(i) == inv.t[i].pc \in 2 .. 4

\* what a step reads from its environment: the f64 rounding error for the
\* amounts, the clock and the random number for the salt, the signer's
\* answer for the signature; the rest of the draw is not looked at
StepDraws(pc) ==
    { e \in Env :
        /\ (INVOCATION_STEPS[pc] # "amounts" => e.err = 0)
        /\ (INVOCATION_STEPS[pc] # "contract"
               => (e.now = 1 /\ e.subsec = 0 /\ e.random = 0))
        /\ (INVOCATION_STEPS[pc] # "sign" => e.sign_ok) }

\* invocation i takes its next step
Advance(i) ==
    /\ inv.phase = "run"
    /\ frame(i).pc < 5
    /\ \E draw \in StepDraws(frame(i).pc) :
         inv' = [inv EXCEPT
                   !.t[i] = order_step(ob, inv.calls[i], frame(i), draw),
                   !.overlap = @ \/ InFlight(3 - i)]
    /\ UNCHANGED <<amt, ob, ord, hm, client, call, hd>>

AdvanceFirst == Advance(1)

AdvanceSecond == Advance(2)

NextConcurrent == AdvanceFirst \/ AdvanceSecond

SpecConcurrent == InitConcurrent /\ [][NextConcurrent]_vars

---------------------------------------------------------------------------
(* The signing harness: a caller holds a Signer and the system clock and   *)
(* calls one of sign_hash, sign_clob_auth_message, create_level_1_headers  *)
(* and create_level_2_headers; hd is the call and what came of it.         *)

\* the clock's next two readings: the same second or a later one
Clocks == { <<a, b>> : a \in Timestamps, b \in Timestamps } \ { <<10, 1>>, <<1000000, 1>>, <<1000000, 10>> }

\* 32-byte digests
Digests == { keccak256(<<"a">>), keccak256(<<"b">>), keccak256(<<>>) }

AuthNonces == {0, 1, 10}

HeaderNonces == {None, Some(0), Some(1012)}

InitSigning ==
    /\ AmountsOff /\ BuilderOff /\ HmacOff /\ ClientOff /\ ConcurrentOff
    /\ \E key \in PRIVATE_KEYS, chain_id \in ChainIds, clock \in Clocks :
         hd = [phase |-> "idle",
               signer |-> Signer_new(<<"0x", key.text>>, chain_id).val,
               clock |-> clock]

\* the caller has called: the call, its arguments and its outcome
SigningCalled(op, in, out, clock) ==
    /\ hd.phase = "idle"
    /\ hd' = [phase |-> "done", signer |-> hd.signer, clock |-> clock,
              before |-> hd.clock, op |-> op, in |-> in, out |-> out]
    /\ UNCHANGED <<amt, ob, ord, hm, client, call, inv>>

SignHash ==
    \E hash \in Digests, sign_ok \in BOOLEAN :
        SigningCalled("sign_hash", [hash |-> hash],
                      Signer_sign_hash(hd.signer, hash, sign_ok), hd.clock)

SignClobAuthMessage ==
    \E timestamp \in Timestamps, nonce \in AuthNonces, sign_ok \in BOOLEAN :
        SigningCalled("sign_clob_auth_message",
                      [timestamp |-> timestamp, nonce |-> nonce],
                      sign_clob_auth_message(hd.signer, timestamp, nonce,
                                             sign_ok),
                      hd.clock)

CreateLevel1Headers ==
    \E nonce \in HeaderNonces, sign_ok \in BOOLEAN :
        LET out == create_level_1_headers(hd.signer, nonce, hd.clock, sign_ok)
        IN  SigningCalled("create_level_1_headers", [nonce |-> nonce],
                          [ret |-> out.ret, signs |-> out.signs], out.clock)

CreateLevel2Headers ==
    \E creds \in ApiCreds, method \in Methods, request_path \in Paths,
       body \in Bodies :
        LET out == create_level_2_headers(hd.signer, creds, method,
                                          request_path, body, hd.clock)
        IN  SigningCalled("create_level_2_headers",
                          [creds |-> creds, method |-> method,
                           request_path |-> request_path, body |-> body],
                          out.ret, out.clock)

NextSigning ==
    SignHash \/ SignClobAuthMessage \/ CreateLevel1Headers
        \/ CreateLevel2Headers

SpecSigning == InitSigning /\ [][NextSigning]_vars

---------------------------------------------------------------------------
(* Claims about the amounts. *)

\* the price of the call in tenths of a tick
PriceTenths == amt.price.v * Pow10(get_round_config(amt.tick).price + 1 - amt.price.d)

\* the decimal floor and the decimal half-away-from-zero rounding of x at d
\* places, as integers in units of 10^-d
DecimalFloor(x, d) ==
    IF x.d >= d THEN x.v \div Pow10(x.d - d) ELSE x.v * Pow10(d - x.d)

DecimalRound(x, d) ==
    IF x.d >= d
    THEN (2 * x.v + Pow10(x.d - d)) \div (2 * Pow10(x.d - d))
    ELSE x.v * Pow10(d - x.d)

\* C1: for every tick size, side, price and size the amounts are in the ratio
\* of a whole number of ticks P that is the price rounded to the nearest tick:
\* maker = P ticks x taker for a BUY, taker = P ticks x maker for a SELL.
C1_RatioIsRoundedPrice ==
    amt.phase = "done" =>
        LET pd == get_round_config(amt.tick).price
            maker == amt.out[2]
            taker == amt.out[3]
        IN  \E P \in 0 .. (PriceTenths \div 10 + 1) :
              /\ 10 * P - PriceTenths <= 5
              /\ PriceTenths - 10 * P <= 5
              /\ IF amt.side = "BUY"
                 THEN maker * Pow10(pd) = P * taker
                 ELSE taker * Pow10(pd) = P * maker

\* a BUY of a positive floored size at an over-precise price whose product
\* carried a rounding error (both correction stages ran)
C1_Witness ==
    /\ amt.phase = "done" /\ amt.side = "BUY" /\ amt.err = 1
    /\ amt.out[2] > 0 /\ amt.out[3] > 0
    /\ PriceTenths % 10 # 0

\* C2 as stated: a limit BUY returns taker = floor(size, size_decimals) x 10^6
\* and maker = floor(size) x round(price, price_decimals) x 10^6, with the
\* decimal floor and the decimal half-away-from-zero rounding.
C2_BuyAmountsAreDecimalFloorAndRound ==
    (amt.phase = "done" /\ amt.side = "BUY") =>
        LET rc == get_round_config(amt.tick)
            S == DecimalFloor(amt.size, rc.size)
            P == DecimalRound(Dec(PriceTenths, rc.price + 1), rc.price)
        IN  /\ amt.out[3] = S * Pow10(6 - rc.size)
            /\ amt.out[2] = S * P * Pow10(6 - rc.size - rc.price)

\* C3: the SELL amounts are the BUY amounts of the same inputs with maker and
\* taker swapped, and side 1 instead of 0.
C3_SellIsBuySwapped ==
    amt.phase = "done" =>
        LET rc == get_round_config(amt.tick)
            buy == get_order_amounts("BUY", amt.size, amt.price, rc, amt.err)
            sell == get_order_amounts("SELL", amt.size, amt.price, rc, amt.err)
        IN  /\ amt.out = IF amt.side = "BUY" THEN buy ELSE sell
            /\ sell = <<1, buy[3], buy[2]>>
            /\ buy[1] = 0

\* a SELL whose maker and taker amounts differ and whose product carried a
\* rounding error
C3_Witness ==
    /\ amt.phase = "done" /\ amt.side = "SELL" /\ amt.err = -1
    /\ amt.out[2] > amt.out[3] /\ amt.out[3] > 0

\* the first `digits` decimals of A / 10^size divided by P / 10^price, as an
\* integer in units of 10^-digits, and the remainder of the division
MarketQuotient(A, P, rc, digits) ==
    LET num == A * Pow10(rc.price)
        den == P * Pow10(rc.size)
    IN  LongDiv(num \div den, num % den, den, digits)

\* the quotient rounded up to amount + 4 places, in units of 10^-(amount + 4)
QuotientRoundedUp(A, P, rc) ==
    LET long == MarketQuotient(A, P, rc, rc.amount + 4)
    IN  IF long[2] = 0 THEN long[1] ELSE long[1] + 1

\* the two-stage correction of the quotient in decimal arithmetic, in units
\* of 10^-amount: a quotient of at most amount decimals is kept; a longer
\* one is rounded up to amount + 4 places and, where that still has more than
\* amount decimals, floored to amount places (the division by 10^4 is exact
\* where it has not)
TwoStageQuotient(A, P, rc) ==
    LET short == MarketQuotient(A, P, rc, rc.amount)
        up == QuotientRoundedUp(A, P, rc)
    IN  IF short[2] = 0 THEN short[1] ELSE up \div Pow10(4)

MarketBuyDone == amt.phase = "market_done" /\ amt.side = "BUY"

\* C20 as stated: a market BUY returns maker = floor(amount, size_decimals) x
\* 10^6 (the decimal floor) and taker = the two-stage correction of
\* floor(amount) / round(price); the taker amount has at most amount_decimals
\* decimals, and it differs from the single floor of the quotient to
\* amount_decimals only where the rounding up landed on a multiple of
\* 10^-amount_decimals.
C20_MarketBuyIsDecimalFloorAndCorrectedQuotient ==
    MarketBuyDone =>
        LET rc == get_round_config(amt.tick)
            A == DecimalFloor(amt.amount, rc.size)
            P == DecimalRound(amt.price, rc.price)
            single == MarketQuotient(A, P, rc, rc.amount)[1]
        IN  /\ amt.out[2] = A * Pow10(6 - rc.size)
            /\ amt.out[3] = TwoStageQuotient(A, P, rc) * Pow10(6 - rc.amount)
            /\ amt.out[3] % Pow10(6 - rc.amount) = 0
            /\ amt.out[3] # single * Pow10(6 - rc.amount)
                   => QuotientRoundedUp(A, P, rc) % Pow10(4) = 0

\* the amount the code floored, read off the maker amount it returned
FlooredAmount == amt.out[2] \div Pow10(6 - get_round_config(amt.tick).size)

\* C20, the part about the taker amount, of the amount as the code floored
\* it: taker = the two-stage correction of floored_amount / round(price), and
\* it has at most amount_decimals decimals.
C20_TakerIsCorrectedQuotientOfFlooredAmount ==
    MarketBuyDone =>
        LET rc == get_round_config(amt.tick)
            P == DecimalRound(amt.price, rc.price)
        IN  /\ amt.out[2] = FlooredAmount * Pow10(6 - rc.size)
            /\ amt.out[3] = TwoStageQuotient(FlooredAmount, P, rc)
                                * Pow10(6 - rc.amount)
            /\ amt.out[3] % Pow10(6 - rc.amount) = 0

\* what one round_down of the raw quotient to amount_decimals would return
SingleFloorTaker ==
    LET rc == get_round_config(amt.tick)
        raw == fdiv(round_down(amt.amount, rc.size),
                    round_normal(amt.price, rc.price), amt.err, rc.amount + 4)
    IN  to_token_decimals(round_down(raw, rc.amount))

\* C20, the boundary inputs: the taker amount differs from a single floor of
\* the raw quotient only where the quotient ends within amount_decimals and
\* the division fell below it.
C20_DiffersFromSingleFloorOnBoundaryOnly ==
    (MarketBuyDone /\ amt.out[3] # SingleFloorTaker) =>
        LET rc == get_round_config(amt.tick)
            P == DecimalRound(amt.price, rc.price)
        IN  /\ MarketQuotient(FlooredAmount, P, rc, rc.amount)[2] = 0
            /\ amt.err = -1
            /\ amt.out[3] = SingleFloorTaker + Pow10(6 - rc.amount)

\* a market BUY of 0.29, an amount of two decimals that the code floors to
\* 0.28
C20_FlooredBelowTheAmount ==
    /\ MarketBuyDone
    /\ amt.amount = Dec(2900, 4)
    /\ amt.out[2] = 280000

\* a market BUY whose quotient has more than amount + 4 decimals (both stages
\* of the correction ran) and one whose taker amount is not the single floor
C20_BothStagesRan ==
    /\ MarketBuyDone /\ amt.out[3] > 0
    /\ MarketQuotient(FlooredAmount, DecimalRound(amt.price, get_round_config(amt.tick).price), get_round_config(amt.tick), get_round_config(amt.tick).amount + 4)[2] # 0

C20_SingleFloorDiffers == MarketBuyDone /\ amt.out[3] # SingleFloorTaker

MarketSellDone == amt.phase = "market_done" /\ amt.side = "SELL"

\* C21: for every tick size, price and amount a market SELL returns exactly
\* what the limit SELL of size = amount at the same price returns.
C21_MarketSellIsLimitSell ==
    MarketSellDone =>
        amt.out = get_order_amounts("SELL", amt.amount, amt.price,
                                    get_round_config(amt.tick), amt.err)

\* a market SELL of an amount with a half cent at a price off the tick, whose
\* product carried a rounding error
C21_Witness ==
    /\ MarketSellDone /\ amt.err = -1
    /\ amt.amount.v % 100 # 0 /\ amt.price.v % 10 # 0
    /\ amt.out[2] > amt.out[3] /\ amt.out[3] > 0

---------------------------------------------------------------------------
(* Claims about the order builder. *)

\* the call is over and came back with an order / with an error
OrderDone == ord.phase = "done"

OrderReturned == OrderDone /\ ord.out.ret.ok

OrderFailed == OrderDone /\ ~ord.out.ret.ok

\* the field of the hashed Order struct at a position of its type string
\* (1 is the type hash, 2 the salt, ..., 9 the expiration)
HashedField(k) == ord.out.struct_hash.val.keccak256[k]

\* the steps that hash or sign
HashingSteps ==
    {"domain_separator", "order_struct_hash", "keccak256", "sign_hash"}

NothingHashedOrSigned ==
    /\ \A k \in 1 .. Len(ord.out.steps) : ord.out.steps[k] \notin HashingSteps
    /\ ord.out.signs = <<>>
    /\ ~ord.out.struct_hash.some
    /\ ~ord.out.domain_sep.some

\* C4: an order that create_market_order returns has expiration 0 in the
\* struct that was hashed and "0" in the serialized record, whatever the
\* arguments; a struct that was hashed for a failed signing has it too.
C4_MarketOrderExpirationZero ==
    (OrderDone /\ ord.op = "create_market_order") =>
        /\ ord.out.struct_hash.some => HashedField(9) = 0
        /\ ord.out.ret.ok => ord.out.ret.val.expiration = <<"0">>

\* a market order was returned, for arguments that are not all zero
C4_Witness ==
    /\ OrderReturned /\ ord.op = "create_market_order"
    /\ ord.order_args.nonce = 1 /\ ord.order_args.fee_rate_bps = 100
    /\ ord.out.ret.val.salt = <<"1">>

\* C5: get_contract_config knows the two Polygon exchanges and nothing else;
\* on any other chain create_order and create_market_order fail without
\* hashing or signing, and a domain separator that was computed names the
\* exchange of the table for the call's neg_risk flag.
C5_OnlyPolygonIsConfigured ==
    /\ \A chain_id \in ChainIds, neg_risk \in BOOLEAN :
         LET config == get_contract_config(chain_id, neg_risk) IN
         /\ config.some <=> chain_id = 137
         /\ config.some =>
              config.val.exchange =
                  IF neg_risk THEN "0xC5d563A36AE78145C45a50134d48A1215220f80a"
                  ELSE "0x4bFb41d5B3570DeFd03C39a9A4D8dE6Bd8B8982E"
    /\ (OrderDone /\ ob.signer.chain_id # 137) =>
         /\ ~ord.out.ret.ok
         /\ ord.out.ret.variant = "InvalidParameter"
         /\ NothingHashedOrSigned
    /\ (OrderDone /\ ord.out.domain_sep.some) =>
         /\ ord.out.domain_sep.val.keccak256[4] = 137
         /\ ord.out.domain_sep.val.keccak256[5] =
                IF ord.options.neg_risk THEN "c5d5" ELSE "4bfb"

\* an order for a well-formed token and taker on the unknown chain failed
C5_Witness ==
    /\ OrderFailed /\ ob.signer.chain_id = 80002
    /\ ord.order_args.token_id = <<"1", "2", "3">>
    /\ ord.order_args.taker = ZERO_ADDRESS

\* the text of an unsigned integer: decimal digits, or "0x" and hex digits
IsDecimalText(text) ==
    \A k \in 1 .. Len(text) : \E j \in 1 .. 10 : DIGITS[j] = text[k]

IsHexText(text) ==
    \A k \in 1 .. Len(text) :
        \E j \in 1 .. 16 : text[k] \in {HEX_LOWER[j], HEX_UPPER[j]}

IsU256Text(text) ==
    IF Len(text) >= 2 /\ SubSeq(text, 1, 2) = <<"0", "x">>
    THEN IsHexText(SubSeq(text, 3, Len(text)))
    ELSE IsDecimalText(text)

IsAddressText(text) == \E a \in ADDRESSES : text \in {a.checksum, a.lower}

\* C7 as stated: a call whose taker is not the text of an address fails.
C7_MalformedTakerIsRejected ==
    (OrderDone /\ ~IsAddressText(ord.order_args.taker)) => ~ord.out.ret.ok

\* what the code does instead: the order is signed over the zero address as
\* taker and serialized with the malformed text
C7_MalformedTakerSignedAsZero ==
    (OrderReturned /\ ~IsAddressText(ord.order_args.taker)) =>
        /\ HashedField(5) = "zero"
        /\ ord.out.ret.val.taker = ord.order_args.taker

---------------------------------------------------------------------------
(* Claims about the HMAC request signature. *)

\* the message of the contract: the decimal timestamp, the method, the path
\* and the body (nothing for an absent one), with nothing in between
HmacMessage(i) ==
    to_string(i.timestamp) \o i.method \o i.request_path
        \o (IF i.body.some THEN i.body.val ELSE <<>>)

HmacSignature(i) ==
    build_hmac_signature(i.secret, i.timestamp, i.method, i.request_path,
                         i.body)

\* C10: for a secret that is base64, the signature is the base64url text of
\* the HMAC-SHA256 of the message under the decoded secret; an absent body
\* and an empty body sign alike, and inputs with the same secret and the
\* same concatenated message have the same signature.
C10_HmacOverConcatenation ==
    (hm.phase = "done" /\ URL_SAFE_decode(hm.in.secret).ok) =>
        /\ hm.out = URL_SAFE_encode(hmac_sha256(URL_SAFE_decode(hm.in.secret).val,
                                                HmacMessage(hm.in)))
        /\ hm.out = HmacSignature([hm.in EXCEPT !.body = None])
             <=> hm.in.body \in {None, Some(<<>>)}
        /\ hm.out = HmacSignature([hm.in EXCEPT !.body = Some(<<>>)])
             <=> hm.in.body \in {None, Some(<<>>)}
        /\ \A j \in HmacInputs :
             (j.secret = hm.in.secret /\ HmacMessage(j) = HmacMessage(hm.in))
                 => HmacSignature(j) = hm.out

\* a signature for an empty body whose message another timestamp, method
\* and path spell as well
C10_Witness ==
    /\ hm.phase = "done" /\ "base64url" \in DOMAIN hm.out
    /\ hm.in.body = Some(<<>>)
    /\ hm.in.timestamp = 10
    /\ \E j \in HmacInputs :
         /\ j.timestamp = 1 /\ j.method # hm.in.method
         /\ j.secret = hm.in.secret /\ HmacMessage(j) = HmacMessage(hm.in)

---------------------------------------------------------------------------
(* Claims about the client. *)

CallDone == call.phase = "done"

\* C8 as stated: within one operation a signing that failed is the last
\* signing of the operation, for the builder and for the client.
C8_NoSigningAfterFailedSigning ==
    /\ OrderDone =>
         \A k \in 1 .. (Len(ord.out.signs) - 1) : ord.out.signs[k].ok
    /\ CallDone =>
         \A k \in 1 .. (Len(call.signs) - 1) : call.signs[k].ok

\* what the code does: create_or_derive_api_key signs a second challenge
\* after the signing of the first has failed; every other operation returns
\* the failure of its only signing
C8_OnlyCreateOrDeriveSignsAgain ==
    (CallDone /\ call.op # "create_or_derive_api_key") =>
        /\ Len(call.signs) <= 1
        /\ (call.signs # <<>> /\ ~call.signs[1].ok) =>
              (~call.ret.ok /\ call.ret.variant = "Signing")

\* the operations of level 1 and of level 2
L1Operations ==
    {"create_api_key", "derive_api_key", "create_or_derive_api_key",
     "create_order", "create_market_order"}

L2OperationNames == { op.name : op \in L2_OPERATIONS }

\* the call failed with AuthRequired and had no effect: no request was sent,
\* the signer was not called, the client (its caches too) is as before
RefusedWithoutEffect ==
    /\ ~call.ret.ok
    /\ call.ret.variant = "AuthRequired"
    /\ call.requests = <<>>
    /\ call.signs = <<>>
    /\ client = call.pre

\* C9: an operation of level 1 on a client without signer, and an operation
\* of level 2 on a client with a signer and without credentials, fails with
\* AuthRequired before any request is sent and any cache is touched.
C9_AuthRequiredBeforeAnyEffect ==
    CallDone =>
        /\ (call.op \in L1Operations /\ ~call.pre.signer.some)
              => RefusedWithoutEffect
        /\ (call.op \in L2OperationNames /\ call.pre.signer.some
              /\ ~call.pre.creds.some) => RefusedWithoutEffect

\* create_order was refused on a client without signer whose caches would
\* have needed the server
C9_Witness ==
    /\ CallDone /\ call.op = "create_order"
    /\ ~call.pre.signer.some /\ call.pre.creds.some
    /\ call.pre.tick_sizes = EmptyMap
    /\ call.ret.message = "L1 auth required (provide private key)"

---------------------------------------------------------------------------
(* Claims about the order digest and the signed record. *)

\* the twelve fields of the struct that the call hashed, in its order
HashedFields == [k \in 1 .. 12 |-> HashedField(k + 1)]

\* the digest of an order: "\x19\x01", the domain separator of the exchange
\* on the chain and the hash of the Order struct with the twelve fields
OrderDigest(chain_id, exchange, f) ==
    keccak256(<<"0x1901",
                OrderBuilder_domain_separator(exchange, chain_id),
                order_struct_hash(f[1], f[2], f[3], f[4], f[5], f[6], f[7],
                                  f[8], f[9], f[10], f[11], f[12])>>)

\* other values for a field: addresses for maker, signer and taker, numbers
\* for the rest
OtherValues(k) ==
    IF k \in {2, 3, 4} THEN {"zero", "f39f", "7099", "4bfb"} ELSE 0 .. 3

\* the exchange of the call
OrderExchange ==
    get_contract_config(ob.signer.chain_id, ord.options.neg_risk).val.exchange

\* C14: the digest that a call signs is the digest of (chain id, exchange,
\* the twelve fields); the fields are, in the order of the Order type, the
\* salt, the funder, the signer, the taker, the token id, the two amounts,
\* the expiration, the nonce, the fee rate, the side and the signature
\* type; and the digest with any one field, the chain id or the exchange
\* changed is another digest.
C14_DigestIsFunctionOfItsFields ==
    (OrderDone /\ ord.out.struct_hash.some) =>
        LET f == HashedFields
            digest == ord.out.signs[1].hash
        IN  /\ Len(ord.out.struct_hash.val.keccak256) = 13
            /\ digest = OrderDigest(ob.signer.chain_id, OrderExchange, f)
            /\ digest.keccak256[3].keccak256[1] =
                   keccak256("Order(uint256 salt,address maker,address signer,address taker,uint256 tokenId,uint256 makerAmount,uint256 takerAmount,uint256 expiration,uint256 nonce,uint256 feeRateBps,uint8 side,uint8 signatureType)")
            /\ f[2] = ob.funder
            /\ f[3] = Signer_address(ob.signer)
            /\ f[4] = unwrap_or_default(parse_address(ord.order_args.taker))
            /\ f[5] = 123
            /\ f[9] = ord.order_args.nonce
            /\ f[10] = ord.order_args.fee_rate_bps
            /\ f[11] = (IF ord.order_args.side = "BUY" THEN 0 ELSE 1)
            /\ f[12] = ob.sig_type
            /\ \A k \in 1 .. 12 : \A v \in OtherValues(k) \ {f[k]} :
                   OrderDigest(ob.signer.chain_id, OrderExchange,
                               [f EXCEPT ![k] = v]) # digest
            /\ OrderDigest(80002, OrderExchange, f) # digest
            /\ \A neg_risk \in BOOLEAN \ {ord.options.neg_risk} :
                   OrderDigest(ob.signer.chain_id,
                               get_contract_config(137, neg_risk).val.exchange,
                               f) # digest

\* a limit order of signature type 2 was signed for a funder that is not
\* the signer
C14_Witness ==
    /\ OrderReturned /\ ord.op = "create_order"
    /\ ob.sig_type = 2 /\ ob.funder = "7099"
    /\ ord.order_args.token_id = <<"0", "x", "7", "b">>

\* the checksummed address of a key, as the tests expect it
ExpectedAddress(key) ==
    IF key = "ac09" THEN "0xf39Fd6e51aad88F6F4ce6aB8827279cffFb92266"
    ELSE "0x70997970C51812dc3A010C7d01b50e0d17dc79C8"

\* C15: the builder keeps the key it was made with; a new builder's funder
\* is the address of that key; the struct that a call hashes has the funder
\* as maker and the address of the key as signer, and the record that is
\* returned carries the checksummed texts of the same two addresses, also
\* after with_funder has set a funder that is not the signer.
C15_MakerIsFunderSignerIsKey ==
    /\ ob.signer.key = "ac09"
    /\ OrderBuilder_new(ob.signer).funder = Signer_address(ob.signer)
    /\ (OrderDone /\ ord.out.struct_hash.some) =>
          /\ HashedField(3) = ob.funder
          /\ HashedField(4) = "f39f"
    /\ OrderReturned =>
          /\ ord.out.ret.val.maker =
                 (IF ob.funder = "f39f" THEN ExpectedAddress("ac09")
                  ELSE ExpectedAddress("59c6"))
          /\ ord.out.ret.val.signer = ExpectedAddress("ac09")

\* a market order was returned by a builder whose funder is not its signer
C15_Witness ==
    /\ OrderReturned /\ ord.op = "create_market_order"
    /\ ob.funder = "7099"
    /\ ord.out.ret.val.maker # ord.out.ret.val.signer

\* what invocation c returns when it runs alone on the builder and reads env
\* from its environment
RunAlone(c, env) ==
    IF c.op = "create_order"
    THEN OrderBuilder_create_order(ob, c.order_args, c.options, env)
    ELSE OrderBuilder_create_market_order(ob, c.order_args, c.options, env)

AmountsAlone(c, env) ==
    IF c.op = "create_order"
    THEN get_order_amounts(c.order_args.side, c.order_args.size,
                           c.order_args.price,
                           get_round_config(c.options.tick_size), env.err)
    ELSE get_market_order_amounts(c.order_args.side, c.order_args.amount,
                                  c.order_args.price,
                                  get_round_config(c.options.tick_size), env.err)

\* C17: however the steps of two invocations on one builder interleave,
\* the amounts, the domain separator, the struct hash and the value returned
\* of an invocation that has finished are those of the same invocation run
\* alone with the same clock reading, random number and signer's answer,
\* and the builder is as it was.
C17_InterleavedInvocationsRunAsAlone ==
    inv.phase = "run" =>
        /\ ob.funder = "7099" /\ ob.sig_type = 0 /\ ob.signer.key = "ac09"
        /\ \A i \in 1 .. 2 :
             inv.t[i].pc = 5 =>
                 LET alone == RunAlone(inv.calls[i], inv.t[i].env) IN
                 /\ inv.t[i].ret = alone.ret
                 /\ inv.t[i].amounts.val
                        = AmountsAlone(inv.calls[i], inv.t[i].env)
                 /\ inv.t[i].struct_hash = alone.struct_hash
                 /\ inv.t[i].domain_sep = alone.domain_sep

\* a limit order and a market order were built while the other was in
\* flight, and both were returned
C17_Witness ==
    /\ inv.phase = "run" /\ inv.overlap
    /\ inv.t[1].pc = 5 /\ inv.t[2].pc = 5
    /\ inv.calls[1].op = "create_order"
    /\ inv.calls[2].op = "create_market_order"
    /\ inv.t[1].ret.ok /\ inv.t[2].ret.ok
    /\ inv.t[1].ret.val.salt # inv.t[2].ret.val.salt

\* invocation i has drawn its salt
SaltDrawn(i) == inv.phase = "run" /\ inv.t[i].salt.some

\* the clock reading of invocation i in quarters of a second
SaltClock(i) == 4 * inv.t[i].env.now + inv.t[i].env.subsec

\* both invocations were of one call, with one outcome of the amounts, and
\* were returned
SameCallTwice ==
    /\ inv.phase = "run" /\ inv.calls[1] = inv.calls[2]
    /\ inv.t[1].pc = 5 /\ inv.t[2].pc = 5
    /\ inv.t[1].ret.ok /\ inv.t[2].ret.ok
    /\ inv.t[1].amounts = inv.t[2].amounts

\* C22 as stated: the salt of a call is at least 0 and at most the current
\* unix time, the reading of the clock the call made.
C22_SaltIsAtMostTheClock ==
    \A i \in 1 .. 2 :
        SaltDrawn(i) =>
            /\ 0 <= inv.t[i].salt.val
            /\ 4 * inv.t[i].salt.val <= SaltClock(i)

\* C22, amended: the salt of a call is the integer nearest to now x r (half
\* away from zero) for the clock reading now and the random number r = k /
\* RandSteps of that call alone, so 0 <= salt <= now + 1/2; and two orders of
\* one builder with the same fields that drew the same salt carry the same
\* struct hash, digest and signature.
C22_SaltIsRoundedProductAndMayCollide ==
    /\ \A i \in 1 .. 2 :
          SaltDrawn(i) =>
              LET salt == inv.t[i].salt.val
                  product == SaltClock(i) * inv.t[i].env.random
              IN  /\ 0 <= salt
                  /\ 4 * salt <= SaltClock(i) + 2
                  /\ 4 * RandSteps * salt - product <= 2 * RandSteps
                  /\ product - 4 * RandSteps * salt < 2 * RandSteps
    /\ (SameCallTwice /\ inv.t[1].salt = inv.t[2].salt) =>
          /\ inv.t[1].struct_hash = inv.t[2].struct_hash
          /\ inv.t[1].hash = inv.t[2].hash
          /\ inv.t[1].ret.val.signature = inv.t[2].ret.val.signature
          /\ inv.t[1].ret = inv.t[2].ret
    /\ (SameCallTwice /\ inv.t[1].salt # inv.t[2].salt) =>
          /\ inv.t[1].hash # inv.t[2].hash
          /\ inv.t[1].ret.val.signature # inv.t[2].ret.val.signature

\* two orders of one call, built at different clock readings with different
\* random numbers, carry the same positive salt and the same signature
C22_Witness ==
    /\ SameCallTwice
    /\ inv.t[1].env.random # 0
    /\ SaltClock(1) # SaltClock(2)
    /\ inv.t[1].salt = inv.t[2].salt
    /\ inv.t[1].ret.val.signature = inv.t[2].ret.val.signature

\* two orders of one call carry different salts
C22_WitnessDifferentSalts ==
    /\ SameCallTwice
    /\ inv.t[1].salt # inv.t[2].salt

\* a salt above the clock reading it was drawn from
C22_WitnessAboveTheClock ==
    \E i \in 1 .. 2 : SaltDrawn(i) /\ 4 * inv.t[i].salt.val > SaltClock(i)

\* the call met one of the failures: a chain without contracts, a token id
\* that is no number, a signer that did not sign
FailureMet ==
    \/ ob.signer.chain_id # 137
    \/ ~IsU256Text(ord.order_args.token_id)
    \/ \E k \in 1 .. Len(ord.out.signs) : ~ord.out.signs[k].ok

\* C18: a call that meets a failure returns an error and no order; no call
\* changes the builder's signer, signature type or funder; and once the
\* caller has dropped the outcome nothing of the call is left, so that the
\* builder and the caller are as before the call and the next call starts
\* from its own arguments, clock reading and random number.
C18_FailedCallLeavesNothing ==
    /\ [](OrderDone =>
            /\ FailureMet <=> ~ord.out.ret.ok
            /\ ~ord.out.ret.ok => "val" \notin DOMAIN ord.out.ret)
    /\ [](ord.phase = "idle" => ord = [phase |-> "idle"])
    /\ [][ord.phase # ord'.phase => ob' = ob]_vars

\* a call on a builder with a funder and a signature type of its own failed
\* at the signer, after amounts, salt and digest were computed
C18_Witness ==
    /\ OrderFailed /\ ord.out.ret.variant = "Signing"
    /\ ord.out.struct_hash.some
    /\ ob.funder = "7099" /\ ob.sig_type = 1

\* the calls of create_order that differ from the one made in one of: the
\* neg-risk flag, the fee rate, the nonce, the expiration, the taker, the
\* token id, the funder and the signature type
OneFieldChanged ==
    { [self |-> ob, order_args |-> [ord.order_args EXCEPT !.fee_rate_bps = v],
       options |-> ord.options] : v \in {0, 100} }
    \cup { [self |-> ob, order_args |-> [ord.order_args EXCEPT !.nonce = v],
            options |-> ord.options] : v \in {0, 1} }
    \cup { [self |-> ob, order_args |-> [ord.order_args EXCEPT !.expiration = v],
            options |-> ord.options] : v \in {0, 1700} }
    \cup { [self |-> ob, order_args |-> [ord.order_args EXCEPT !.taker = v],
            options |-> ord.options] : v \in Takers }
    \cup { [self |-> ob, order_args |-> [ord.order_args EXCEPT !.token_id = v],
            options |-> ord.options] : v \in TokenIds }
    \cup { [self |-> ob, order_args |-> ord.order_args,
            options |-> [ord.options EXCEPT !.neg_risk = v]] : v \in BOOLEAN }
    \cup { [self |-> OrderBuilder_with_funder(ob, v),
            order_args |-> ord.order_args, options |-> ord.options] :
            v \in {"f39f", "7099"} }
    \cup { [self |-> OrderBuilder_with_sig_type(ob, v),
            order_args |-> ord.order_args, options |-> ord.options] :
            v \in SigTypes }

\* C19: a create_order call that differs from the one made in one of those
\* fields, and keeps side, price, size and tick size, hashes and returns
\* the same maker and taker amounts, whatever it reads from its
\* environment.
C19_AmountsDependOnSidePriceSizeTick ==
    (OrderDone /\ ord.op = "create_order" /\ ord.out.struct_hash.some) =>
        \A c \in OneFieldChanged, err \in FlErr :
            LET other == OrderBuilder_create_order(c.self, c.order_args,
                             c.options,
                             [err |-> err, now |-> MaxNow, subsec |-> 0, random |-> 0,
                              sign_ok |-> TRUE])
            IN  other.struct_hash.some =>
                  /\ other.struct_hash.val.keccak256[7] = HashedField(7)
                  /\ other.struct_hash.val.keccak256[8] = HashedField(8)
                  /\ other.ret.ok
                  /\ ord.out.ret.ok =>
                        /\ other.ret.val.maker_amount
                               = ord.out.ret.val.maker_amount
                        /\ other.ret.val.taker_amount
                               = ord.out.ret.val.taker_amount

\* a limit BUY at tick 0.1 on a neg-risk market was returned, with amounts
\* that are not those of tick 0.01
C19_Witness ==
    /\ OrderReturned /\ ord.op = "create_order"
    /\ ord.options = [tick_size |-> "0.1", neg_risk |-> TRUE]
    /\ ord.order_args.side = "BUY"
    /\ ord.out.ret.val.maker_amount = to_string(12624000)
    /\ ord.out.ret.val.taker_amount = to_string(21040000)

---------------------------------------------------------------------------
(* Claims about signing and the request headers. *)

SigningDone(op) == hd.phase = "done" /\ hd.op = op

\* C11: for credentials with a base64 secret, create_level_2_headers reads
\* the clock once; the timestamp header is the decimal text of that reading,
\* the signature is the HMAC of that same timestamp, the method, the path and
\* the body under the secret, the address is the signer's checksummed
\* address, and the key and passphrase are those of the credentials.
C11_Level2HeadersCarrySignedTimestamp ==
    (SigningDone("create_level_2_headers")
        /\ URL_SAFE_decode(hd.in.creds.api_secret).ok) =>
        /\ hd.clock = Tail(hd.before)
        /\ hd.out.timestamp = to_string(Head(hd.before))
        /\ \E t \in Timestamps :
             /\ hd.out.timestamp = to_string(t)
             /\ hd.out.signature =
                    URL_SAFE_encode(hmac_sha256(
                        URL_SAFE_decode(hd.in.creds.api_secret).val,
                        HmacMessage([timestamp |-> t, method |-> hd.in.method,
                                     request_path |-> hd.in.request_path,
                                     body |-> hd.in.body])))
        /\ hd.out.address = ExpectedAddress(hd.signer.key)
        /\ hd.out.api_key = hd.in.creds.api_key
        /\ hd.out.passphrase = hd.in.creds.api_passphrase

\* headers for a request with a body, made while the clock ticks from 1 to 10
C11_Witness ==
    /\ SigningDone("create_level_2_headers")
    /\ "signature" \in DOMAIN hd.out
    /\ hd.in.body = Some(<<"{", "}">>)
    /\ hd.before = <<1, 10>>
    /\ hd.signer.key = "59c6"

\* the ClobAuth struct that a signed digest covers: the digest hashes
\* "\x19\x01", the domain separator and the struct hash, the struct hash
\* hashes the type, the address, the timestamp, the nonce and the message
SignedClobAuth(hash) == hash.keccak256[3].keccak256

\* C12: create_level_1_headers signs one login challenge; the nonce that was
\* hashed is the given one, or 0 when none is given, the timestamp that was
\* hashed is the decimal text of the one reading of the clock, and the
\* headers returned carry that nonce and that timestamp, the signature of
\* that challenge and the signer's address.
C12_Level1HeadersCarrySignedNonce ==
    SigningDone("create_level_1_headers") =>
        LET n == IF hd.in.nonce = None THEN 0 ELSE hd.in.nonce.val
            signed == SignedClobAuth(hd.out.signs[1].hash)
        IN  /\ Len(hd.out.signs) = 1
            /\ hd.clock = Tail(hd.before)
            /\ signed[4] = n
            /\ signed[3] = keccak256(to_string(Head(hd.before)))
            /\ signed[2] = Signer_address(hd.signer)
            /\ hd.out.ret.ok =>
                 /\ hd.out.ret.val.nonce = to_string(signed[4])
                 /\ keccak256(hd.out.ret.val.timestamp) = signed[3]
                 /\ hd.out.ret.val.signature.hex.hash = hd.out.signs[1].hash
                 /\ hd.out.ret.val.address = ExpectedAddress(hd.signer.key)

\* headers were returned for a call without nonce
C12_Witness ==
    /\ SigningDone("create_level_1_headers")
    /\ hd.in.nonce = None /\ hd.out.ret.ok
    /\ hd.out.ret.val.nonce = <<"0">>
    /\ hd.before = <<10, 1000000>>

\* headers were returned for a call with a nonce
C12_WitnessWithNonce ==
    /\ SigningDone("create_level_1_headers")
    /\ hd.in.nonce = Some(1012) /\ hd.out.ret.ok
    /\ hd.out.ret.val.nonce = <<"1", "0", "1", "2">>

\* C13: for a signer, the signature of the login challenge for (timestamp,
\* nonce) is the one every call with the same timestamp and nonce returns
\* and no call with another timestamp or another nonce returns; the struct
\* that is signed holds the hash of the decimal text of the timestamp.
C13_AuthSignatureDeterminedByTimestampAndNonce ==
    (SigningDone("sign_clob_auth_message") /\ hd.out.ret.ok) =>
        /\ \A timestamp \in Timestamps, nonce \in AuthNonces :
             sign_clob_auth_message(hd.signer, timestamp, nonce, TRUE).ret
                     = hd.out.ret
                 <=> (timestamp = hd.in.timestamp /\ nonce = hd.in.nonce)
        /\ SignedClobAuth(hd.out.signs[1].hash)[3]
               = keccak256(to_string(hd.in.timestamp))
        /\ hd.out.ret.val.hex.hash = hd.out.signs[1].hash

\* a challenge was signed for timestamp 10 and nonce 1, whose digits another
\* pair (1, 10) of the inputs shares
C13_Witness ==
    /\ SigningDone("sign_clob_auth_message") /\ hd.out.ret.ok
    /\ hd.in.timestamp = 10 /\ hd.in.nonce = 1
    /\ hd.signer.chain_id = CHAIN_ID

\* what a verifier recovers from a signature and the digest it is shown:
\* the address of the key that signed, if the signature covers that digest
RecoveredAddress(sig, hash) ==
    IF sig.hash = hash
    THEN (CHOOSE k \in PRIVATE_KEYS : k.key = sig.signed_by).addr
    ELSE "unrelated"

---------------------------------------------------------------------------
(* Claims about the client's caches, its paging and its configuration. *)

CacheDone == call.phase = "done" /\ "fetched" \in DOMAIN call

\* the requests of the call that went to the endpoint of a kind
RequestsOf(kind) ==
    { i \in 1 .. Len(call.requests) :
        call.requests[i].path[1] = CACHE_ENDPOINTS[kind] }

\* every entry of the caches of client a is an entry of the caches of b
CachesKept(a, b) ==
    \A kind \in DOMAIN CACHE_ENDPOINTS :
        \A k \in DOMAIN cache_of(a, kind) :
            /\ k \in DOMAIN cache_of(b, kind)
            /\ cache_of(b, kind)[k] = cache_of(a, kind)[k]

\* C23: a lookup of a cached token returns the cached value, sends no
\* request and leaves the client as it was; a lookup of a token that is not
\* cached sends one request, caches the value it returns if the server
\* answered with one and leaves the caches as they were if not; create_order
\* sends a request of a kind only for a token that is not cached; the server
\* answers at most one request per kind and token with a value; and no step
\* removes or changes a cached entry.
C23_CachedValueIsFetchedOnce ==
    /\ [](CacheDone /\ call.op \in DOMAIN CACHE_ENDPOINTS =>
             LET before == cache_of(call.pre, call.op)
                 after == cache_of(client, call.op)
             IN  IF call.token \in DOMAIN before
                 THEN /\ call.requests = <<>>
                      /\ call.ret = Ok(before[call.token])
                      /\ client = call.pre
                 ELSE /\ Len(call.requests) = 1
                      /\ RequestsOf(call.op) = {1}
                      /\ call.requests[1].path[3] = call.token
                      /\ call.ret.ok =>
                            /\ after = insert(before, call.token, call.ret.val)
                            /\ \A kind \in DOMAIN CACHE_ENDPOINTS \ {call.op} :
                                  cache_of(client, kind) = cache_of(call.pre, kind)
                      /\ ~call.ret.ok => client = call.pre)
    /\ [](CacheDone =>
             \A kind \in DOMAIN CACHE_ENDPOINTS :
                 /\ Cardinality(RequestsOf(kind)) <= 1
                 /\ RequestsOf(kind) # {} =>
                       call.token \notin DOMAIN cache_of(call.pre, kind)
                 /\ RequestsOf(kind) = {} =>
                       cache_of(client, kind) = cache_of(call.pre, kind))
    /\ []("fetched" \in DOMAIN call =>
             \A k \in CacheKeys :
                 /\ call.fetched[k] <= 1
                 /\ call.fetched[k] = 1 <=> k[2] \in DOMAIN cache_of(client, k[1]))
    /\ [][(client # None /\ client' # None) => CachesKept(client, client')]_vars

\* a tick size that was fetched once is looked up again and comes from the
\* cache, while the other token has another tick size cached
C23_Witness ==
    /\ CacheDone /\ call.op = "tick_size"
    /\ call.token \in DOMAIN call.pre.tick_sizes
    /\ call.requests = <<>> /\ call.ret.ok
    /\ call.fetched[<<"tick_size", call.token>>] = 1
    /\ \E other \in DOMAIN client.tick_sizes :
          client.tick_sizes[other] # client.tick_sizes[call.token]

\* create_order sent one request, for the neg-risk flag, the tick size being
\* cached, and the flag it fetched is cached
C23_WitnessThroughCreateOrder ==
    /\ CacheDone /\ call.op = "create_order" /\ call.ret.ok
    /\ RequestsOf("tick_size") = {} /\ RequestsOf("neg_risk") = {1}
    /\ call.token \in DOMAIN call.pre.tick_sizes
    /\ call.token \in DOMAIN client.neg_risk

\* the cursors a call asks for from `cursor` on, in their order, up to the
\* page that carries END_CURSOR or for `fuel` pages
RECURSIVE CursorChain(_, _, _)
CursorChain(server, cursor, fuel) ==
    IF fuel = 0 THEN <<>>
    ELSE IF server[cursor].next_cursor = END_CURSOR THEN <<cursor>>
    ELSE <<cursor>> \o CursorChain(server, server[cursor].next_cursor, fuel - 1)

\* the chain of the server reaches END_CURSOR: it does within as many pages
\* as there are cursors, or it cycles
ChainEnds(server) ==
    LET chain == CursorChain(server, FIRST_CURSOR, Cardinality(Cursors))
    IN  server[chain[Len(chain)]].next_cursor = END_CURSOR

\* the data of the pages of a chain, in its order
RECURSIVE ChainData(_, _)
ChainData(server, chain) ==
    IF chain = <<>> THEN <<>>
    ELSE server[Head(chain)].data \o ChainData(server, Tail(chain))

InGetMarkets == call.phase = "get_markets"

GetMarketsReturned == InGetMarkets /\ call.loc.pc = "returned"

\* C24: the requests of get_markets are for FIRST_CURSOR and then for the
\* next_cursor of each answer, in that order; when it returns Ok the last
\* answer carried END_CURSOR and the value is the data of every page asked
\* for, that page included, in the order of the requests; when a request
\* fails it returns that error and nothing of the pages read; the client is
\* not changed; and against a server whose chain reaches END_CURSOR the call
\* returns.
C24_GetMarketsFollowsTheCursorChain ==
    /\ [](InGetMarkets =>
             LET n == Len(call.loc.requests)
                 chain == CursorChain(call.server, FIRST_CURSOR, n)
             IN  /\ Len(chain) = n
                 /\ \A i \in 1 .. n :
                       call.loc.requests[i].path
                           = <<"/markets", "?next_cursor=", chain[i]>>
                 /\ call.loc.pc = "loop" =>
                       /\ call.loc.results = ChainData(call.server, chain)
                       /\ call.loc.cursor
                              = IF n = 0 THEN FIRST_CURSOR
                                ELSE call.server[chain[n]].next_cursor
                       /\ call.loc.cursor # END_CURSOR
                 /\ call.loc.pc = "returned" =>
                       /\ n >= 1
                       /\ DOMAIN call.loc = {"pc", "requests", "ret"}
                       /\ IF call.loc.ret.ok
                          THEN /\ call.server[chain[n]].next_cursor = END_CURSOR
                               /\ call.loc.ret.val
                                      = ChainData(call.server, chain)
                          ELSE /\ call.loc.ret \in { http_error(r) :
                                                       r \in Responses \ {"ok"} }
                               /\ "val" \notin DOMAIN call.loc.ret)
    /\ [][client' = client]_vars
    /\ ((InGetMarkets /\ ChainEnds(call.server)) ~> GetMarketsReturned)

\* get_markets read three pages, the third carried END_CURSOR, and returned
\* the five markets of the three
C24_Witness ==
    /\ GetMarketsReturned /\ call.loc.ret.ok
    /\ Len(call.loc.requests) = 3
    /\ call.loc.requests[3].path[3] = "Mg=="
    /\ Len(call.loc.ret.val) = 5
    /\ call.loc.ret.val[1].id = FIRST_CURSOR /\ call.loc.ret.val[5].id = "Mg=="

\* the second request failed: the error is returned
C24_WitnessFailedPage ==
    /\ GetMarketsReturned /\ ~call.loc.ret.ok
    /\ Len(call.loc.requests) = 2

\* against a server whose chain does not reach END_CURSOR the loop goes on
C24_WitnessCycle ==
    /\ InGetMarkets /\ call.loc.pc = "loop" /\ ~ChainEnds(call.server)
    /\ Len(call.loc.requests) = MaxPages

\* the client holds a signer and API credentials
HoldsSignerAndCreds == client # None /\ client.signer.some /\ client.creds.some

\* C25 as stated: after any sequence of with_signer, with_creds and set_creds
\* calls assert_l2 succeeds if and only if the client holds both a signer and
\* API credentials, in whichever order they were supplied.
C25_AuthorizedIffSignerAndCreds ==
    client # None => (assert_l2(client).ok <=> HoldsSignerAndCreds)

\* C25, the half that holds: assert_l2 succeeds only on a client that holds
\* both, and returns the signer and the credentials it holds.
C25_AuthorizedOnlyWithSignerAndCreds ==
    (client # None /\ assert_l2(client).ok) =>
        /\ HoldsSignerAndCreds
        /\ assert_l2(client).val = <<client.signer.val, client.creds.val>>

\* a client that was given credentials and then a signer holds both and is
\* refused at level 2
C25_HoldsBothAndIsRefused ==
    /\ HoldsSignerAndCreds
    /\ client.mode = L1
    /\ ~assert_l2(client).ok

\* a client that was given a signer and then credentials is authorized
C25_HoldsBothAndIsAuthorized == HoldsSignerAndCreds /\ assert_l2(client).ok

\* an order was returned to a caller that had set a funder or a type
ConfigOrderReturned ==
    /\ call.phase = "done" /\ "builder_funder" \in DOMAIN call
    /\ call.ret.ok

\* C26 as stated: once set_funder(f) has returned Ok every order created
\* later has maker = f, and once set_signature_type(t) has been called every
\* order created later has signatureType = t, whether the call came before
\* or after with_signer and across repeated with_signer calls (f and t the
\* latest that were set).
C26_FunderAndSignatureTypeStick ==
    ConfigOrderReturned =>
        /\ call.funder.some =>
              call.ret.val.maker = to_checksum(call.funder.val)
        /\ call.sig_type.some =>
              call.ret.val.signature_type = call.sig_type.val

\* C26, what holds: an order carries the funder and the signature type that
\* were set since the last with_signer, and the signer's address and type 0
\* if none was.
C26_FunderAndSignatureTypeSinceWithSigner ==
    ConfigOrderReturned =>
        /\ call.ret.val.maker =
              IF call.builder_funder.some
              THEN to_checksum(call.builder_funder.val)
              ELSE Signer_address_string(client.signer.val)
        /\ call.ret.val.signature_type =
              IF call.builder_sig_type.some THEN call.builder_sig_type.val
              ELSE 0

\* set_funder returned Ok before with_signer, and the order's maker is the
\* signer's address, not the funder
C26_FunderSetBeforeSignerIsLost ==
    /\ ConfigOrderReturned
    /\ call.funder.some /\ ~call.builder_funder.some
    /\ call.ret.val.maker # to_checksum(call.funder.val)
    /\ call.ret.val.maker = Signer_address_string(client.signer.val)

\* a funder and a signature type set after with_signer are in the order
C26_FunderSetAfterSignerIsKept ==
    /\ ConfigOrderReturned
    /\ call.builder_funder.some /\ call.builder_sig_type.some
    /\ call.ret.val.maker = to_checksum(call.builder_funder.val)
    /\ call.ret.val.maker # Signer_address_string(client.signer.val)
    /\ call.ret.val.signature_type = call.builder_sig_type.val

\* the field of the Order struct that the returned order was signed over, at
\* a position of its type string (2 is the salt, ..., 11 the fee rate)
SignedField(k) == call.signs[1].hash.keccak256[3].keccak256[k]

\* the integer that a serialized decimal field denotes
Denoted(text) == from_str_radix(text, 10)

\* the fields that are serialized from the value hashed: the salt, the
\* amounts, the nonce, the expiration and the token id (read as the builder
\* reads it)
NumbersAreTheHashedOnes ==
    LET order == call.ret.val IN
    /\ Denoted(order.salt) = Ok(SignedField(2))
    /\ parse_token_id(order.token_id) = Ok(SignedField(6))
    /\ Denoted(order.maker_amount) = Ok(SignedField(7))
    /\ Denoted(order.taker_amount) = Ok(SignedField(8))
    /\ Denoted(order.expiration) = Ok(SignedField(9))
    /\ Denoted(order.nonce) = Ok(SignedField(10))

\* C27 as stated: in every order returned each serialized field denotes the
\* value that was hashed and signed: the serialized taker is the address
\* hashed, the serialized feeRateBps the integer hashed (for a negative fee
\* rate too), and the token id, nonce, expiration and amounts likewise.
C27_SerializedFieldsAreTheHashedOnes ==
    ConfigOrderReturned =>
        LET order == call.ret.val IN
        /\ NumbersAreTheHashedOnes
        /\ parse_address(order.taker) = Ok(SignedField(5))
        /\ Denoted(order.fee_rate_bps) = Ok(SignedField(11))

\* C27, what holds: the numbers are the hashed ones; the taker is the one
\* hashed if its text is an address, and else the text is serialized and
\* the zero address hashed; the fee rate is the one hashed if it is not
\* negative, and else "-n" is serialized and 2^64 - n hashed.
C27_SerializedFieldsButTakerAndFee ==
    ConfigOrderReturned =>
        LET order == call.ret.val
            args == call.order_args
        IN
        /\ NumbersAreTheHashedOnes
        /\ order.taker = args.taker
        /\ IF parse_address(args.taker).ok
           THEN parse_address(order.taker) = Ok(SignedField(5))
           ELSE SignedField(5) = "zero"
        /\ order.fee_rate_bps = i32_to_string(args.fee_rate_bps)
        /\ IF args.fee_rate_bps >= 0
           THEN Denoted(order.fee_rate_bps) = Ok(SignedField(11))
           ELSE /\ ~Denoted(order.fee_rate_bps).ok
                /\ SignedField(11) = as_u64(args.fee_rate_bps)

\* an order of a negative fee rate was returned: "-1" is serialized and
\* 2^64 - 1 was signed
C27_NegativeFeeRate ==
    /\ ConfigOrderReturned
    /\ call.ret.val.fee_rate_bps = <<"-", "1">>
    /\ SignedField(11) = <<"2^64 +", -1>>
    /\ parse_address(call.ret.val.taker) = Ok(SignedField(5))

\* an order of a malformed taker was returned: the text is serialized and
\* the zero address was signed
C27_MalformedTaker ==
    /\ ConfigOrderReturned
    /\ call.ret.val.taker = "0x1234" /\ SignedField(5) = "zero"
    /\ call.order_args.fee_rate_bps = 100

\* an order whose fields all denote what was signed
C27_AllFieldsDenoteTheHashed ==
    /\ ConfigOrderReturned
    /\ call.order_args.fee_rate_bps = 100
    /\ call.order_args.taker = "0x70997970C51812dc3A010C7d01b50e0d17dc79C8"
    /\ NumbersAreTheHashedOnes
    /\ parse_address(call.ret.val.taker) = Ok(SignedField(5))
    /\ Denoted(call.ret.val.fee_rate_bps) = Ok(SignedField(11))

\* the limit order of the harness of large orders, with its amounts
LargeDone == amt.phase = "large_done"

\* the exact product of the floored size and the rounded price of the
\* order, in token units (10^-6)
ExactProduct ==
    LET round_config == get_round_config(amt.tick)
        size == Strip(round_down(amt.size, round_config.size))
        price == Strip(round_normal(amt.price, round_config.price))
    IN  WideInt(size.v * price.v, 6 - size.d - price.d, 0)

\* the amount of the order that is the product (the other is the size)
ProductAmount == IF amt.side = "BUY" THEN amt.out[2] ELSE amt.out[3]

SizeAmount == IF amt.side = "BUY" THEN amt.out[3] ELSE amt.out[2]

\* an integer beyond 32 bits is a multiple of 10^k
WideMultiple(w, k) == w.off = 0 /\ (w.m = 0 \/ w.e >= k)

\* C28 as stated: every tick size has an entry in the table, with
\* price_decimals + size_decimals <= amount_decimals, so that the amount of
\* a limit order that is a product is the exact product of the floored size
\* and the rounded price, which the correction leaves as it is, and both
\* amounts are multiples of 10^(6 - amount_decimals).
C28_ProductIsExactAndUnchanged ==
    /\ \A ts \in TickSize :
         /\ ts \in DOMAIN ROUNDING_CONFIG
         /\ get_round_config(ts).price + get_round_config(ts).size
                <= get_round_config(ts).amount
    /\ LargeDone =>
         /\ ProductAmount = ExactProduct
         /\ WideMultiple(ProductAmount, 6 - get_round_config(amt.tick).amount)
         /\ WideMultiple(SizeAmount, 6 - get_round_config(amt.tick).amount)

\* C28, what holds of a large order: the table has the entries, the size
\* amount is the floored size, and the product amount is the exact product
\* or, where the binary64 product is below it, one token unit less.
C28_ProductIsExactOrOneLess ==
    /\ \A ts \in TickSize :
         /\ ts \in DOMAIN ROUNDING_CONFIG
         /\ get_round_config(ts).price + get_round_config(ts).size
                <= get_round_config(ts).amount
    /\ LargeDone =>
         /\ SizeAmount = WideInt(amt.size.v, 6, 0)
         /\ ProductAmount =
                [ExactProduct EXCEPT !.off = IF amt.err < 0 THEN -1 ELSE 0]

\* 530 000 shares at 0.8503: 450 658.999999 instead of 450 659
C28_LargeOrderOneUnitShort ==
    /\ LargeDone /\ amt.side = "BUY"
    /\ amt.size = Dec(530000, 0) /\ amt.price = Dec(8503, 4)
    /\ amt.out = <<0, [m |-> 450659, e |-> 6, off |-> -1],
                      [m |-> 53, e |-> 10, off |-> 0]>>

\* 530 000 shares at 0.8501: the exact product
C28_LargeOrderExact ==
    /\ LargeDone /\ amt.side = "SELL"
    /\ amt.size = Dec(530000, 0) /\ amt.price = Dec(8501, 4)
    /\ amt.out = <<1, [m |-> 53, e |-> 10, off |-> 0],
                      [m |-> 450553, e |-> 6, off |-> 0]>>

\* C28 on the orders of the grid, whose products are far below 2^52 /
\* 10^(amount_decimals + 4): the product amount is the exact product and
\* both amounts are multiples of 10^(6 - amount_decimals).
C28_SmallOrdersAreExact ==
    amt.phase = "done" =>
        LET round_config == get_round_config(amt.tick)
            size == round_down(amt.size, round_config.size)
            price == round_normal(amt.price, round_config.price)
            unit == Pow10(6 - round_config.amount)
        IN  /\ (IF amt.side = "BUY" THEN amt.out[2] ELSE amt.out[3]) =
                   size.v * price.v * Pow10(6 - size.d - price.d)
            /\ amt.out[2] % unit = 0 /\ amt.out[3] % unit = 0

\* the login challenges that can be signed: any chain, address, timestamp
\* and nonce
LoginInputs ==
    [chain_id : ChainIds, address : {"zero", "f39f", "7099", "4bfb"},
     timestamp : Timestamps \cup {0, 1700}, nonce : AuthNonces]

LoginDomains == { eip712_domain_separator(i.chain_id) : i \in LoginInputs }

\* the digest of a login challenge, as sign_clob_auth_message hashes it
LoginDigest(i) ==
    keccak256(<<"0x1901", eip712_domain_separator(i.chain_id),
                eip712_struct_hash(i.address, i.timestamp, i.nonce)>>)

LoginDigests == { LoginDigest(i) : i \in LoginInputs }

\* a call of the order builder got as far as the signer
OrderHashed == OrderDone /\ ord.out.struct_hash.some

\* C29: the digest of an order is computed under the domain of the exchange
\* (name, version, chain id, verifying contract), which is the domain of no
\* login challenge (name, version, chain id), and it is the digest of no
\* login challenge; the signature of the order is the signature that the
\* signer of the order gives to no login challenge.
C29_OrderDigestIsNoLoginDigest ==
    OrderHashed =>
        /\ ord.out.domain_sep.val \notin LoginDomains
        /\ ord.out.signs[1].hash.keccak256[2] = ord.out.domain_sep.val
        /\ ord.out.signs[1].hash \notin LoginDigests
        /\ \A d \in LoginDigests :
              Signer_sign_hash(ob.signer, d, TRUE) #
                  Signer_sign_hash(ob.signer, ord.out.signs[1].hash, TRUE)

\* an order was signed by the signer and on the chain of a login challenge,
\* with nonce and expiration among the nonces and timestamps of challenges
C29_Witness ==
    /\ OrderReturned /\ ord.op = "create_order"
    /\ ord.order_args.nonce = 1 /\ ord.order_args.expiration = 1700
    /\ \E i \in LoginInputs :
         /\ i.chain_id = ob.signer.chain_id
         /\ i.address = Signer_address(ob.signer)
         /\ i.nonce = ord.order_args.nonce
         /\ i.timestamp = ord.order_args.expiration
         /\ sign_clob_auth_message(ob.signer, i.timestamp, i.nonce, TRUE).ret
                # ord.out.ret

CreateOrDeriveDone == CallDone /\ call.op = "create_or_derive_api_key"

\* the requests of the call to an endpoint
RequestsTo(endpoint) ==
    { k \in 1 .. Len(call.requests) : call.requests[k].path = <<endpoint>> }

\* C30: create_or_derive_api_key makes the one attempt of create_api_key
\* first.  If it succeeds its credentials are returned and nothing of
\* derive_api_key happens.  If it fails, at the check of the signer, at the
\* signing or at the server, derive_api_key runs once, with headers built
\* from a new reading of the clock and a new signature, and its result is
\* the result of the call: when both fail the error is derive's.
C30_DeriveOnceAfterFailedCreate ==
    CreateOrDeriveDone =>
        LET created == create_api_key(call.pre, call.nonce, call.env)
            derived == derive_api_key(call.pre, call.nonce,
                                      second_call(call.env))
            posts == RequestsTo("endpoints::CREATE_API_KEY")
            gets == RequestsTo("endpoints::DERIVE_API_KEY")
        IN
        /\ Cardinality(posts) <= 1 /\ Cardinality(gets) <= 1
        /\ \A p \in posts, g \in gets : p < g
        /\ posts \cup gets = 1 .. Len(call.requests)
        /\ IF created.ret.ok
           THEN /\ call.ret = created.ret
                /\ gets = {} /\ Cardinality(posts) = 1
                /\ call.signs = created.signs /\ Len(call.signs) = 1
           ELSE /\ call.ret = derived.ret
                /\ call.requests = created.requests \o derived.requests
                /\ call.signs = created.signs \o derived.signs
                /\ Len(call.signs) = 2 * Len(created.signs)
                /\ \A g \in gets :
                      call.requests[g].auth =
                          Some(create_level_1_headers(
                                   call.pre.signer.val, call.nonce,
                                   clock_at(call.env.now + call.env.later),
                                   call.env.sign_ok2).ret.val)

\* create_api_key failed at the signer and derive_api_key at the server:
\* the caller has derive's error, and the one request was derive's, with
\* the timestamp of the later reading of the clock
C30_Witness ==
    /\ CreateOrDeriveDone
    /\ ~call.env.sign_ok /\ call.env.sign_ok2 /\ call.env.resp2 = "json"
    /\ call.env.later = 1
    /\ call.ret = Err("Json", "invalid body")
    /\ Len(call.signs) = 2
    /\ Len(call.requests) = 1 /\ call.requests[1].method = GET
    /\ call.requests[1].auth.val.timestamp = to_string(call.env.now + 1)

\* both requests were sent and both were refused: the error of the second
C30_WitnessBothRefused ==
    /\ CreateOrDeriveDone
    /\ call.env.resp = "status" /\ call.env.resp2 = "json"
    /\ Len(call.requests) = 2
    /\ create_api_key(call.pre, call.nonce, call.env).ret
           = Err("Api", "HTTP status")
    /\ call.ret = Err("Json", "invalid body")

\* create_api_key succeeded: one request, one signing, its credentials
C30_WitnessCreated ==
    /\ CreateOrDeriveDone
    /\ call.ret.ok /\ call.env.resp2 = "json" /\ ~call.env.sign_ok2
    /\ Len(call.requests) = 1 /\ call.requests[1].method = POST

\* without a signer both attempts are refused before any header is built
C30_WitnessNoSigner ==
    /\ CreateOrDeriveDone
    /\ ~call.pre.signer.some
    /\ call.requests = <<>> /\ call.signs = <<>>
    /\ ~call.ret.ok /\ call.ret.variant = "AuthRequired"

=============================================================================
